---- MODULE Spec2Model ----
(***************************************************************************)
(* The agent-process gateway of claudecodeui (bun-server): the WebSocket   *)
(* route /ws, spawnClaude and its child-process callbacks, the live-       *)
(* invocation map activeClaudeProcesses, abortClaudeSession, the watcher's *)
(* client registry and the server's signal handlers.                       *)
(*                                                                         *)
(* Frame tags are the ones the code sends: claude-response, claude-output, *)
(* claude-error and claude-complete are the frames the specification calls *)
(* agent-response, agent-output, agent-error and agent-complete.           *)
(***************************************************************************)
EXTENDS Integers, Sequences, FiniteSets, TLC

\* ------------------------------------------------------------- bounds
\* run frames accepted over the server's life
MaxInv == 2
\* stdout lines and stderr chunks delivered, all invocations together
MaxOutput == 2
\* lines in one stdout 'data' chunk
MaxChunk == 2

\* ------------------------------------------------------------- values
\* the gateway sockets (one client)
Sockets == {"wsA"}
\* session ids: the ones the agent announces on stdout, and the ones a client
\* names in options.sessionId (a session it saw before)
SessionIds == {"s1", "s2"}
ClientSessionIds == {"s1"}
\* options.sessionId undefined, response.session_id absent: both falsy
NoSession == ""
\* Date.now().toString() at successive readings of the clock
Millis == <<"ms1", "ms2", "ms3">>
MillisKeys == {Millis[k] : k \in 1..Len(Millis)}
\* every key the map can hold
Keys == SessionIds \cup MillisKeys
\* what an abort-session frame may name: a session id, or a generated key
AbortIds == SessionIds \cup {Millis[1]}
\* exit codes of the 'close' event: null when the child died of a signal,
\* a negative errno when it never started
NaturalCodes == {"0", "1"}
SignalCode == "null"
SpawnErrCode == "-2"

\* one line of stdout after split('\n').filter(trim): it parses as JSON or not,
\* and a parsed object may carry a session_id
Lines ==
  {[json |-> FALSE, session_id |-> NoSession]}
    \cup {[json |-> TRUE, session_id |-> s] : s \in SessionIds \cup {NoSession}}
RECURSIVE ChunksOf(_)
ChunksOf(n) ==
  IF n = 0 THEN {<<>>}
  ELSE LET shorter == ChunksOf(n - 1)
       IN shorter \cup {Append(c, l) : c \in {x \in shorter : Len(x) = n - 1}, l \in Lines}
Chunks == ChunksOf(MaxChunk) \ {<<>>}

VARIABLES
  server,                 \* "up" | "stopping" | "exited"
  liveAtSignal,           \* the children live when the shutdown signal arrived
  sock,                   \* socket -> "idle" | "open" | "closing" | "closed"
  connectedClients,       \* the watcher's client registry
  inv,                    \* the invocations, in the order of their run frames
  activeClaudeProcesses,  \* the entries <<key, invocation whose child is stored>>
  frames,                 \* per invocation: the frames sent for it, in order
  lastReply               \* the last session-aborted reply sent

\* the env store and the environment built for a child
VARIABLES
  processEnv,             \* process.env of the server: key -> value
  claudeEnvStore,         \* key -> ClaudeEnvVar
  envRead,                \* the last response of GET / or GET /:key since a write
  claudeEnv               \* the env option of the last spawn since a write

\* the project watcher
VARIABLES
  events,                 \* the watch events so far, each with its burst
  timers,                 \* the debounce timers set and neither cleared nor fired
  debounceTimer,          \* the handle debouncedUpdate holds, 0 for null
  broadcasting,           \* the timers whose broadcast awaits discoverProjects()
  updates                 \* the broadcasts made: the timer, the sockets reached

\* the session logs of one alias directory
VARIABLES
  jsonlFiles,             \* the .jsonl files the directory holds
  content,                \* file -> its lines
  mtimes,                 \* the files, the one written last first
  listing,                \* the last result of getClaudeSessions since a write
  page,                   \* the last result of getClaudeSessionMessages since a write
  del,                    \* the deleteSession call under way, or how the last one ended
  extractedPath,          \* what the last extractProjectDirectory returned since a write
  projectDirectoryCache   \* alias -> the path resolved for it

\* the projects: the sidecar config, the alias directories, the real paths
VARIABLES
  config,                 \* project-config.json: <<alias, entry>> in insertion order
  projectDirs,            \* alias -> the alias directory under ~/.claude/projects
  realPaths,              \* the project paths that exist on disk
  projects,               \* the last result of discoverProjects since a write
  configResult            \* how the last call of the project config ended

\* the temp images of the invocations, and the file operations' paths
VARIABLES
  clock,                  \* Date.now()
  tempDirs,               \* the directories .tmp/images/<ts> that exist
  tempFiles,              \* the image files that exist: <<ts, index, extension>>
  imageRuns,              \* invocation -> its images, tempImagePaths and tempDir
  relativePath,           \* the path a project file operation was given
  resolvedPath,           \* what resolveProjectFilePath made of it
  pipe,                   \* the bytes a child wrote to stdout, and how many were read
  stdoutSent,             \* the frames sent for the chunks read so far
  spawnOptions,           \* what buildClaudeArgs was last given
  claudeArgs,             \* the arguments it built
  inbound                 \* the last frame a socket sent that is no command, and its answer

gatewayVars ==
  <<server, liveAtSignal, sock, connectedClients, inv,
    activeClaudeProcesses, frames, lastReply>>
envStoreVars == <<processEnv, claudeEnvStore, envRead, claudeEnv>>
\* what the gateway's handlers leave alone
watcherVars == <<events, timers, debounceTimer, broadcasting, updates>>
sessionVars ==
  <<jsonlFiles, content, mtimes, listing, page, del, extractedPath, projectDirectoryCache>>
projectVars == <<config, projectDirs, realPaths, projects, configResult>>
cliVars ==
  <<clock, tempDirs, tempFiles, imageRuns, relativePath, resolvedPath, pipe,
    stdoutSent, spawnOptions, claudeArgs, inbound>>
services == <<envStoreVars, watcherVars, sessionVars, projectVars, cliVars>>
\* what the env routes leave alone, and what the watcher's timers do
besidesEnv == <<gatewayVars, watcherVars, sessionVars, projectVars, cliVars>>
besidesWatcher ==
  <<server, liveAtSignal, inv, activeClaudeProcesses, frames, lastReply, envStoreVars,
    sessionVars, projectVars, cliVars>>
\* what the session manager leaves alone
besidesSessions ==
  <<gatewayVars, envStoreVars, watcherVars, projectDirectoryCache, projectVars, cliVars>>
vars == <<gatewayVars, services>>

\* ------------------------------------------------------ claudeEnvMemory.ts
\* keys are strings, written as their characters so that includes() is a
\* search for a substring
PATH == <<"P", "A", "T", "H">>
HOME == <<"H", "O", "M", "E">>
USER == <<"U", "S", "E", "R">>
SHELL == <<"S", "H", "E", "L", "L">>
TERM == <<"T", "E", "R", "M">>
TMPDIR == <<"T", "M", "P", "D", "I", "R">>
LANG == <<"L", "A", "N", "G">>
LC_ALL == <<"L", "C", "_", "A", "L", "L">>
\* const essentialVars = [...]
essentialVars == {PATH, HOME, USER, SHELL, TERM, TMPDIR, LANG, LC_ALL}

TOKEN == <<"T", "O", "K", "E", "N">>
KEY == <<"K", "E", "Y">>
SECRET == <<"S", "E", "C", "R", "E", "T">>
API_KEY == <<"A", "P", "I", "_", "K", "E", "Y">>
AUTH_TOKEN == <<"A", "U", "T", "H", "_", "T", "O", "K", "E", "N">>
MY_SECRETS == <<"M", "Y", "_", "S", "E", "C", "R", "E", "T", "S">>
secret == <<"s", "e", "c", "r", "e", "t">>
DEBUG == <<"D", "E", "B", "U", "G">>
EmptyKey == <<>>

\* the keys clients store, the keys the host has, the keys a request adds
StoreKeys == {PATH, API_KEY, AUTH_TOKEN, MY_SECRETS, secret, DEBUG}
StoreValues == {"", "stored"}
HostValue == "host"
ExtraValue == "extra"
Hidden == "***HIDDEN***"

\* a Record<string, string>: a function from the keys it has
NoRecord == [k \in {} |-> ""]
ObjectAssign(target, source) ==
  [k \in DOMAIN target \cup DOMAIN source |->
     IF k \in DOMAIN source THEN source[k] ELSE target[k]]
Only(record, keys) == [k \in DOMAIN record \cap keys |-> record[k]]
Constant(keys, value) == [k \in keys |-> value]

\* process.env of the server, fixed when it starts
HostEnvs ==
  {Constant({PATH, LC_ALL, API_KEY, DEBUG}, HostValue),
   ObjectAssign(Constant({PATH, AUTH_TOKEN}, HostValue), Constant({LC_ALL}, "")),
   Constant({LC_ALL, MY_SECRETS}, HostValue),
   NoRecord}
\* options.env of a run request (undefined adds nothing, like {})
ExtraEnvs ==
  {NoRecord,
   Constant({API_KEY}, ExtraValue),
   ObjectAssign(Constant({PATH, DEBUG}, ExtraValue), Constant({AUTH_TOKEN}, ""))}
\* the body of POST /bulk
BulkEnvs ==
  {Constant({API_KEY, DEBUG}, "stored"),
   ObjectAssign(Constant({AUTH_TOKEN, EmptyKey}, "stored"), Constant({secret}, "")),
   Constant({PATH, MY_SECRETS}, "")}

\* claudeEnvStore.set(key, envVar), .delete(key)
setClaudeEnvVar(store, key, value) ==
  [k \in DOMAIN store \cup {key} |->
     IF k = key THEN [key |-> key, value |-> value] ELSE store[k]]
deleteClaudeEnvVar(store, key) == [k \in DOMAIN store \ {key} |-> store[k]]

\* for (const [key, value] of Object.entries(envVars)) if (key && ...) set
RECURSIVE bulkUpdateClaudeEnvVars(_, _, _)
bulkUpdateClaudeEnvVars(store, envVars, todo) ==
  IF todo = {} THEN store
  ELSE LET key == CHOOSE k \in todo : TRUE
       IN bulkUpdateClaudeEnvVars(
            IF key # EmptyKey THEN setClaudeEnvVar(store, key, envVars[key]) ELSE store,
            envVars, todo \ {key})

\* getAllClaudeEnvVars / getClaudeEnvVar: the stored records
getAllClaudeEnvVars(store) == {store[k] : k \in DOMAIN store}
\* getClaudeEnvAsRecord: envRecord[key] = envVar.value
getClaudeEnvAsRecord(store) == [k \in DOMAIN store |-> store[k].value]

\* key.includes(sub)
Includes(s, sub) ==
  \E i \in 1..(Len(s) - Len(sub) + 1) : SubSeq(s, i, i + Len(sub) - 1) = sub
\* a mask that hides empty values too
MaskedValue_hidesEmpty(env) ==
  IF Includes(env.key, TOKEN) \/ Includes(env.key, KEY) \/ Includes(env.key, SECRET)
  THEN Hidden
  ELSE env.value

\* the value the routes put in place of env.value
MaskedValue(env) ==
  IF Includes(env.key, TOKEN) \/ Includes(env.key, KEY) \/ Includes(env.key, SECRET)
  THEN (IF env.value # "" THEN Hidden ELSE "")
  ELSE env.value
MaskedEnvVar(env) == [env EXCEPT !.value = MaskedValue(env)]

\* for (const key of essentialVars) if (process.env[key]) claudeEnv[key] = ...
EssentialEnv(host) ==
  [k \in {e \in essentialVars \cap DOMAIN host : host[e] # ""} |-> host[k]]
\* an env that starts from the whole of process.env
ClaudeEnv_inheritsHost(host, store, optionsEnv) ==
  ObjectAssign(ObjectAssign(host, getClaudeEnvAsRecord(store)), optionsEnv)

\* the env option of spawn: essentials, then the store, then options.env
ClaudeEnv(host, store, optionsEnv) ==
  ObjectAssign(ObjectAssign(EssentialEnv(host), getClaudeEnvAsRecord(store)), optionsEnv)

NoRead == [kind |-> "none", key |-> EmptyKey, status |-> 0, envVars |-> {}]
NotSpawned == [spawned |-> FALSE, env |-> NoRecord]
\* the env store untouched
EnvIdle ==
  /\ processEnv = NoRecord
  /\ claudeEnvStore = NoRecord
  /\ envRead = NoRead
  /\ claudeEnv = NotSpawned

\* a frame handed to ws.send: its type tag and what it carries (the sessionId
\* of session-created, the session_id of a parsed object, the exit code, the
\* error text)
Frame(t, d) == [type |-> t, data |-> d]
StderrText == "stderr"
SpawnErrText == "spawn claude ENOENT"
ExitErrText == "Claude CLI exited with code"

Invocations == 1..Len(inv)
Live(i) == inv[i].pc = "running"
StdoutFrames ==
  {Frame(t, d) : t \in {"claude-response", "claude-output"}, d \in SessionIds \cup {NoSession}}
Count(i, fs) == Cardinality({k \in 1..Len(frames[i]) : frames[i][k] \in fs})
RECURSIVE Total(_, _)
Total(n, fs) == IF n = 0 THEN 0 ELSE Count(n, fs) + Total(n - 1, fs)
\* what the children's pipes have delivered so far
Output == Total(Len(inv), StdoutFrames \cup {Frame("claude-error", StderrText)})
\* no session-aborted reply sent yet
NoReply == [to |-> "", sessionId |-> NoSession, success |-> FALSE]

GatewayStart(sockets) ==
  /\ server = "up"
  /\ liveAtSignal = {}
  /\ sock = [s \in sockets |-> "idle"]
  /\ connectedClients = {}
  /\ inv = <<>>
  /\ activeClaudeProcesses = {}
  /\ frames = <<>>
  /\ lastReply = NoReply

\* the watcher set up, nothing watched yet
WatcherIdle ==
  /\ events = <<>>
  /\ timers = {}
  /\ debounceTimer = 0
  /\ broadcasting = {}
  /\ updates = <<>>

\* the log files of the alias directory, in the order readdir lists them
FileNames == <<"a.jsonl", "b.jsonl">>
Files == {FileNames[i] : i \in DOMAIN FileNames}
NoListing == [sessions |-> <<>>, total |-> -1, hasMore |-> FALSE, offset |-> 0, limit |-> 0]
NoPage ==
  [sessionId |-> "", messages |-> <<>>, total |-> -1, hasMore |-> FALSE,
   offset |-> 0, limit |-> 0]
NoCwd == <<>>
NoPath == [path |-> <<>>, cached |-> FALSE]
NoDelete ==
  [pc |-> "idle", sessionId |-> "", todo |-> <<>>, lines |-> <<>>,
   sessionFound |-> FALSE, written |-> {}, before |-> [f \in Files |-> <<>>]]
\* two project paths and their aliases, in the order readdir lists them
PathP == <<"/", "h", "/", "p">>
PathQ == <<"/", "h", "/", "q">>
ProjectAliases == <<<<"-", "h", "-", "p">>, <<"-", "h", "-", "q">>>>
AliasSet == {ProjectAliases[i] : i \in DOMAIN ProjectAliases}
NoDir == [exists |-> FALSE, files |-> {}, text |-> [f \in Files |-> <<>>]]
NoProjects == <<[name |-> <<>>]>>
\* what the last operation on the project config answered
NoResult == [op |-> "none", ok |-> FALSE]
Ok(op) == [op |-> op, ok |-> TRUE]
Failed(op) == [op |-> op, ok |-> FALSE]
\* no sidecar, no alias directory, nothing asked yet
ProjectsIdle ==
  /\ config = <<>>
  /\ projectDirs = [alias \in AliasSet |-> NoDir]
  /\ realPaths = {}
  /\ projects = NoProjects
  /\ configResult = NoResult
\* two invocations at most carry images
Runs == {1, 2}
NoRun == [pc |-> "idle", images |-> <<>>, tempImagePaths |-> <<>>, tempDir |-> -1]
Unresolved == [status |-> "none", path |-> <<>>]
NoPipe == [bytes |-> <<>>, read |-> 0, written |-> FALSE]
NoOptions == [built |-> FALSE]
NoInbound == [from |-> "", message |-> "", answer |-> <<>>]
\* no invocation with images yet, no file operation asked
CliIdle ==
  /\ clock = 0
  /\ tempDirs = {}
  /\ tempFiles = {}
  /\ imageRuns = [r \in Runs |-> NoRun]
  /\ relativePath = <<>>
  /\ resolvedPath = Unresolved
  /\ pipe = NoPipe
  /\ stdoutSent = <<>>
  /\ spawnOptions = NoOptions
  /\ claudeArgs = <<>>
  /\ inbound = NoInbound

\* an empty alias directory, nothing asked yet
SessionIdle ==
  /\ jsonlFiles = {}
  /\ content = [f \in Files |-> <<>>]
  /\ mtimes = <<>>
  /\ listing = NoListing
  /\ page = NoPage
  /\ del = NoDelete
  /\ extractedPath = NoPath
  /\ projectDirectoryCache = {}

GatewayInit == GatewayStart(Sockets)
Init == GatewayInit /\ EnvIdle /\ WatcherIdle /\ SessionIdle /\ ProjectsIdle /\ CliIdle

\* ------------------------------------------------------ the map (a JS Map)
\* a set of <<key, child>> entries, at most one per key
MapHas(map, k) == \E e \in map : e[1] = k
MapGet(map, k) == (CHOOSE e \in map : e[1] = k)[2]
MapDelete(map, k) == {e \in map : e[1] # k}
MapSet(map, k, v) == MapDelete(map, k) \cup {<<k, v>>}
MapKeys(map) == {e[1] : e \in map}

\* a || b || c
Or3(a, b, c) == IF a # NoSession THEN a ELSE IF b # NoSession THEN b ELSE c

\* ------------------------------------------------------ watcher registry
addProjectWatcherClient(clients, c) == clients \cup {c}
removeProjectWatcherClient(clients, c) == clients \ {c}

\* ------------------------------------------------------ websocket.ts
\* open(ws): register the socket with the watcher
Open(s) ==
  /\ server # "exited"
  /\ sock[s] = "idle"
  /\ sock' = [sock EXCEPT ![s] = "open"]
  /\ connectedClients' = addProjectWatcherClient(connectedClients, s)
  /\ UNCHANGED <<services, server, liveAtSignal, inv, activeClaudeProcesses, frames, lastReply>>

\* close(ws): all the handler does is deregister the socket from the watcher
CloseSocket(s) ==
  /\ server # "exited"
  /\ sock[s] \in {"open", "closing"}
  /\ sock' = [sock EXCEPT ![s] = "closed"]
  /\ connectedClients' = removeProjectWatcherClient(connectedClients, s)
  /\ UNCHANGED <<services, server, liveAtSignal, inv, activeClaudeProcesses, frames, lastReply>>

\* message(ws, claude-command): spawnClaude runs up to its first await
\* (processImages, buildClaudeArgs); the child is spawned in the continuation
RunFrame(s, sessionId) ==
  /\ server # "exited"
  /\ sock[s] = "open"
  /\ Len(inv) < MaxInv
  /\ inv' = Append(inv, [ws |-> s,
                         sessionId |-> sessionId,
                         capturedSessionId |-> sessionId,
                         sessionCreatedSent |-> FALSE,
                         processKey |-> NoSession,
                         pc |-> "spawning",
                         started |-> FALSE,
                         sigterm |-> FALSE,
                         promise |-> "pending"])
  /\ frames' = Append(frames, <<>>)
  /\ UNCHANGED <<services, server, liveAtSignal, sock, connectedClients,
                 activeClaudeProcesses, lastReply>>

\* ------------------------------------------------------ claudeCliService.ts
\* the continuation of spawnClaude: spawn('claude', ...), then store the child
\* under processKey = capturedSessionId || sessionId || Date.now().toString()
ProcessKey(me, now) == Or3(me.capturedSessionId, me.sessionId, now)

\* Date.now() never goes back, and may not have advanced since it was last
\* read: the readings are the Millis keys handed out so far
Readings == {k \in 1..Len(Millis) : \E i \in Invocations : inv[i].processKey = Millis[k]}
Now(t) ==
  /\ t \in 1..Len(Millis)
  /\ \A k \in Readings : k <= t
  /\ t = 1 \/ t \in Readings \/ (t - 1) \in Readings

\* const finalSessionId = capturedSessionId || sessionId || processKey
FinalSessionId(me) == Or3(me.capturedSessionId, me.sessionId, me.processKey)

\* the promise settles once: resolve and reject are no-ops afterwards
Settled(promise, outcome) == IF promise = "pending" THEN outcome ELSE promise

\* a rejection that settles the promise runs the .catch of the message handler
\* (websocket.ts), which sends claude-error with error.message on the socket
CatchFrames(promise, text) ==
  IF promise = "pending" THEN <<Frame("claude-error", text)>> ELSE <<>>

Spawn(i, t) ==
  /\ server # "exited"
  /\ inv[i].pc = "spawning"
  /\ Now(t)
  /\ LET key == ProcessKey(inv[i], Millis[t])
     IN /\ inv' = [inv EXCEPT ![i].processKey = key, ![i].pc = "running",
                              ![i].started = TRUE]
        /\ activeClaudeProcesses' = MapSet(activeClaudeProcesses, key, i)
  /\ UNCHANGED <<services, server, liveAtSignal, sock, connectedClients, frames, lastReply>>

\* the child could not be started: 'error' is emitted on the next tick, before
\* any socket or pipe event. The handler deletes the entry, sends claude-error
\* and, the cleanup awaited, rejects
ErrorHandler(i, me) ==
  /\ activeClaudeProcesses' = MapDelete(MapSet(activeClaudeProcesses, me.processKey, i),
                                        FinalSessionId(me))
  /\ frames' = [frames EXCEPT ![i] = Append(@, Frame("claude-error", SpawnErrText))
                                       \o CatchFrames(me.promise, SpawnErrText)]
  /\ inv' = [inv EXCEPT ![i] = [me EXCEPT !.pc = "failed",
                                          !.promise = Settled(@, "rejected")]]

SpawnFail(i, t) ==
  /\ server # "exited"
  /\ inv[i].pc = "spawning"
  /\ Now(t)
  /\ ErrorHandler(i, [inv[i] EXCEPT !.processKey = ProcessKey(inv[i], Millis[t])])
  /\ UNCHANGED <<services, server, liveAtSignal, sock, connectedClients, lastReply>>

\* if (response.session_id && !capturedSessionId)
CapturesSessionId(response, capturedSessionId) ==
  response.session_id # NoSession /\ capturedSessionId = NoSession

\* a re-key that forgets to delete the old entry
Rekey_keepsOldKey(map, processKey, capturedSessionId, child) ==
  IF processKey # capturedSessionId /\ capturedSessionId # NoSession
  THEN MapSet(map, capturedSessionId, child)
  ELSE map

\* if (processKey !== capturedSessionId && capturedSessionId): move the child
\* from processKey to the captured session id
Rekey(map, processKey, capturedSessionId, child) ==
  IF processKey # capturedSessionId /\ capturedSessionId # NoSession
  THEN MapSet(MapDelete(map, processKey), capturedSessionId, child)
  ELSE map

\* if (!sessionId && !sessionCreatedSent)
SendsSessionCreated(sessionId, sessionCreatedSent) ==
  sessionId = NoSession /\ ~sessionCreatedSent

\* the two sends in the other order
ParsedFrames_responseFirst(created, capturedSessionId, response) ==
  <<Frame("claude-response", response.session_id)>>
    \o (IF created THEN <<Frame("session-created", capturedSessionId)>> ELSE <<>>)

\* the sends for one parsed object: session-created, when due, then the object
ParsedFrames(created, capturedSessionId, response) ==
  (IF created THEN <<Frame("session-created", capturedSessionId)>> ELSE <<>>)
    \o <<Frame("claude-response", response.session_id)>>

\* a loop body that announces the session for every object that names one
OnLine_createdEveryTime(st, i, line) ==
  LET me == st.inv[i]
      capture == CapturesSessionId(line, me.capturedSessionId)
      captured == IF capture THEN line.session_id ELSE me.capturedSessionId
      created == line.session_id # NoSession
  IN IF ~line.json
     THEN [st EXCEPT !.frames[i] = Append(@, Frame("claude-output", NoSession))]
     ELSE [inv |-> [st.inv EXCEPT ![i].capturedSessionId = captured,
                                  ![i].sessionCreatedSent = @ \/ created],
           map |-> IF capture THEN Rekey(st.map, me.processKey, captured, i) ELSE st.map,
           frames |-> [st.frames EXCEPT
                         ![i] = @ \o ParsedFrames(created, line.session_id, line)]]

\* one pass of the for loop over the chunk's lines; st holds what the loop
\* reads and writes: the invocations, the map and the frames sent
OnLine(st, i, line) ==
  LET me == st.inv[i]
      capture == CapturesSessionId(line, me.capturedSessionId)
      captured == IF capture THEN line.session_id ELSE me.capturedSessionId
      created == capture /\ SendsSessionCreated(me.sessionId, me.sessionCreatedSent)
  IN IF ~line.json
     THEN [st EXCEPT !.frames[i] = Append(@, Frame("claude-output", NoSession))]
     ELSE [inv |-> [st.inv EXCEPT ![i].capturedSessionId = captured,
                                  ![i].sessionCreatedSent = @ \/ created],
           map |-> IF capture THEN Rekey(st.map, me.processKey, captured, i) ELSE st.map,
           frames |-> [st.frames EXCEPT ![i] = @ \o ParsedFrames(created, captured, line)]]

RECURSIVE OnLines(_, _, _)
OnLines(st, i, lines) ==
  IF lines = <<>> THEN st ELSE OnLines(OnLine(st, i, Head(lines)), i, Tail(lines))

\* claudeProcess.stdout.on('data'): the chunk's non-blank lines, in order
StdoutData(i, chunk) ==
  /\ server # "exited"
  /\ Live(i)
  /\ Output + Len(chunk) <= MaxOutput
  /\ LET st == OnLines([inv |-> inv, map |-> activeClaudeProcesses, frames |-> frames],
                       i, chunk)
     IN /\ inv' = st.inv
        /\ activeClaudeProcesses' = st.map
        /\ frames' = st.frames
  /\ UNCHANGED <<services, server, liveAtSignal, sock, connectedClients, lastReply>>

\* claudeProcess.stderr.on('data')
StderrData(i) ==
  /\ server # "exited"
  /\ Live(i)
  /\ Output < MaxOutput
  /\ frames' = [frames EXCEPT ![i] = Append(@, Frame("claude-error", StderrText))]
  /\ UNCHANGED <<services, server, liveAtSignal, sock, connectedClients, inv,
                 activeClaudeProcesses, lastReply>>

\* a close handler that says nothing for a child that was killed
CloseHandler_silentWhenKilled(i, code) ==
  /\ activeClaudeProcesses' = MapDelete(activeClaudeProcesses, FinalSessionId(inv[i]))
  /\ frames' = [frames EXCEPT ![i] = @ \o (IF inv[i].sigterm THEN <<>>
                                            ELSE <<Frame("claude-complete", code)>>)]
  /\ inv' = [inv EXCEPT ![i].pc = "closed",
                        ![i].promise = Settled(@, IF code = "0" THEN "resolved"
                                                  ELSE "rejected")]

\* claudeProcess.on('close'): delete the entry, send claude-complete and, the
\* cleanup awaited, resolve() if code === 0, else reject
CloseHandler(i, code) ==
  /\ activeClaudeProcesses' = MapDelete(activeClaudeProcesses, FinalSessionId(inv[i]))
  /\ frames' = [frames EXCEPT ![i] = Append(@, Frame("claude-complete", code))
                                       \o (IF code = "0" THEN <<>>
                                           ELSE CatchFrames(inv[i].promise, ExitErrText))]
  /\ inv' = [inv EXCEPT ![i].pc = "closed",
                        ![i].promise = Settled(@, IF code = "0" THEN "resolved"
                                                  ELSE "rejected")]

\* the codes a running child can exit with: its own, or none (null) when the
\* SIGTERM it was sent killed it
ExitCodes(me) == NaturalCodes \cup (IF me.sigterm THEN {SignalCode} ELSE {})

\* a started child exits and its pipes close
ChildClose(i, code) ==
  /\ server # "exited"
  /\ Live(i)
  /\ code \in ExitCodes(inv[i])
  /\ CloseHandler(i, code)
  /\ UNCHANGED <<services, server, liveAtSignal, sock, connectedClients, lastReply>>

\* 'close' after the 'error' of a child that never started (the runtime may
\* or may not emit it)
CloseAfterError(i) ==
  /\ server # "exited"
  /\ inv[i].pc = "failed"
  /\ CloseHandler(i, SpawnErrCode)
  /\ UNCHANGED <<services, server, liveAtSignal, sock, connectedClients, lastReply>>

\* an abort that signals the child and leaves its entry in the map
abortClaudeSession_keepsEntry(map, invs, sessionId) ==
  IF MapHas(map, sessionId)
  THEN [ret |-> TRUE,
        inv |-> [invs EXCEPT ![MapGet(map, sessionId)].sigterm = TRUE],
        map |-> map]
  ELSE [ret |-> FALSE, inv |-> invs, map |-> map]

\* an abort that looks the key up again after deleting it, and returns that
abortClaudeSession_returnsHas(map, invs, sessionId) ==
  IF MapHas(map, sessionId)
  THEN [ret |-> MapHas(MapDelete(map, sessionId), sessionId),
        inv |-> [invs EXCEPT ![MapGet(map, sessionId)].sigterm = TRUE],
        map |-> MapDelete(map, sessionId)]
  ELSE [ret |-> FALSE, inv |-> invs, map |-> map]

\* abortClaudeSession(sessionId) on a map and the invocations: its return
\* value, and the map and the invocations it leaves (process.kill('SIGTERM')
\* marks the child as signalled)
abortClaudeSession(map, invs, sessionId) ==
  IF MapHas(map, sessionId)
  THEN [ret |-> TRUE,
        inv |-> [invs EXCEPT ![MapGet(map, sessionId)].sigterm = TRUE],
        map |-> MapDelete(map, sessionId)]
  ELSE [ret |-> FALSE, inv |-> invs, map |-> map]

\* message(ws, abort-session): abort, then reply session-aborted
AbortFrame(s, sessionId) ==
  /\ server # "exited"
  /\ sock[s] = "open"
  /\ LET r == abortClaudeSession(activeClaudeProcesses, inv, sessionId)
     IN /\ inv' = r.inv
        /\ activeClaudeProcesses' = r.map
        /\ lastReply' = [to |-> s, sessionId |-> sessionId, success |-> r.ret]
  /\ UNCHANGED <<services, server, liveAtSignal, sock, connectedClients, frames>>

\* ------------------------------------------------------ index.ts
\* process.on(SIGINT | SIGTERM): the handler up to its await of app.stop()
Shutdown ==
  /\ server = "up"
  /\ server' = "stopping"
  /\ liveAtSignal' = {i \in Invocations : Live(i)}
  /\ UNCHANGED <<services, sock, connectedClients, inv, activeClaudeProcesses, frames, lastReply>>

\* process.exit(0)
Exit ==
  /\ server = "stopping"
  /\ server' = "exited"
  /\ UNCHANGED <<services, liveAtSignal, sock, connectedClients, inv,
                 activeClaudeProcesses, frames, lastReply>>

\* ------------------------------------------------------ specifications
\* what the clients do
Clients ==
  \/ \E s \in Sockets : Open(s)
  \/ \E s \in Sockets : CloseSocket(s)
  \/ \E s \in Sockets, sid \in ClientSessionIds \cup {NoSession} : RunFrame(s, sid)
  \/ \E s \in Sockets, id \in AbortIds : AbortFrame(s, id)

\* the children's start and end
Children ==
  \/ \E i \in Invocations, t \in 1..Len(Millis) : Spawn(i, t)
  \/ \E i \in Invocations, t \in 1..Len(Millis) : SpawnFail(i, t)
  \/ \E i \in Invocations, code \in NaturalCodes \cup {SignalCode} : ChildClose(i, code)
  \/ \E i \in Invocations : CloseAfterError(i)

\* what the children write
Pipes ==
  \/ \E i \in Invocations, chunk \in Chunks : StdoutData(i, chunk)
  \/ \E i \in Invocations : StderrData(i)

\* the gateway while the server runs
Next == Clients \/ Children \/ Pipes
Spec == Init /\ [][Next]_vars

\* a child that was sent SIGTERM exits, and its 'close' event is delivered
SigtermExit(i) ==
  /\ i \in Invocations
  /\ inv[i].sigterm
  /\ \E code \in NaturalCodes \cup {SignalCode} : ChildClose(i, code)
LiveSpec == Spec /\ \A i \in 1..MaxInv : WF_vars(SigtermExit(i))

\* the gateway and the server's shutdown (the children silent)
ShutdownNext == Clients \/ Children \/ Shutdown \/ Exit
ShutdownSpec == Init /\ [][ShutdownNext]_vars

\* One invocation per logical session at a time (running several on one
\* session concurrently is no goal of the gateway): a client names no session
\* that an invocation is using, and the agent announces no session that
\* another invocation is using.
InUse(sessionId, i) ==
  \E j \in Invocations \ {i} :
    /\ inv[j].pc # "closed"
    /\ sessionId \in {inv[j].sessionId, inv[j].capturedSessionId}
RunFrameIsolated(s, sessionId) ==
  /\ ~InUse(sessionId, 0)
  /\ RunFrame(s, sessionId)
StdoutDataIsolated(i, chunk) ==
  /\ \A k \in 1..Len(chunk) : ~InUse(chunk[k].session_id, i)
  /\ StdoutData(i, chunk)
IsolatedNext ==
  \/ \E s \in Sockets : Open(s)
  \/ \E s \in Sockets : CloseSocket(s)
  \/ \E s \in Sockets, sid \in ClientSessionIds \cup {NoSession} : RunFrameIsolated(s, sid)
  \/ \E s \in Sockets, id \in AbortIds : AbortFrame(s, id)
  \/ Children
  \/ \E i \in Invocations, chunk \in Chunks : StdoutDataIsolated(i, chunk)
  \/ \E i \in Invocations : StderrData(i)
IsolatedSpec == Init /\ [][IsolatedNext]_vars

\* ------------------------------------------------------ the claims
FrameAt(i, k) == frames[i][k]
Positions(i) == 1..Len(frames[i])
Completes(i) == {k \in Positions(i) : FrameAt(i, k).type = "claude-complete"}
Createds(i) == {k \in Positions(i) : FrameAt(i, k).type = "session-created"}
Responses(i) == {k \in Positions(i) : FrameAt(i, k).type = "claude-response"}
InvocationFrameTypes == {"claude-response", "claude-output", "claude-error", "session-created"}

\* C1: once an invocation's complete frame has been sent, no response, output,
\* error or session-created frame of that invocation follows it, whatever the
\* exit code.
AgentCompleteIsLast ==
  \A i \in Invocations : \A j \in Completes(i) : \A k \in Positions(i) :
    j < k => FrameAt(i, k).type \notin InvocationFrameTypes

\* C2: an invocation whose child started has sent no complete frame while the
\* child runs and exactly one once the child has closed, aborted or not.
CompleteExactlyOnce ==
  \A i \in Invocations :
    inv[i].started =>
      Cardinality(Completes(i)) = (IF inv[i].pc = "closed" THEN 1 ELSE 0)

\* an aborted child that closed, killed by the signal, after writing output
CompleteAfterAbortReached ==
  \E i \in Invocations :
    /\ inv[i].started /\ inv[i].sigterm /\ inv[i].pc = "closed"
    /\ Responses(i) # {}
    /\ \E k \in Completes(i) : FrameAt(i, k).data = SignalCode

\* C3: a session-created frame precedes every response frame of its invocation
\* whose object carries the session id it announces.
SessionCreatedBeforeItsResponses ==
  \A i \in Invocations : \A j \in Createds(i) : \A k \in Responses(i) :
    FrameAt(i, k).data = FrameAt(i, j).data => j < k

\* a session was announced and an object carrying its id was forwarded
SessionCreatedThenResponseReached ==
  \E i \in Invocations : \E j \in Createds(i) : \E k \in Responses(i) :
    FrameAt(i, k).data = FrameAt(i, j).data /\ j < k

\* C4: a session-created frame precedes every response frame of its
\* invocation, the ones for objects without a session_id included.
SessionCreatedBeforeEveryResponse ==
  \A i \in Invocations : \A j \in Createds(i) : \A k \in Responses(i) : j < k

\* C5: an invocation sends session-created at most once, and never when it was
\* started with a session id, whatever session ids its stdout carries.
SessionCreatedOnce ==
  \A i \in Invocations :
    /\ Cardinality(Createds(i)) <= 1
    /\ inv[i].sessionId # NoSession => Createds(i) = {}

\* an invocation started on a session whose stdout named another session
ResumeSawOtherSessionReached ==
  \E i \in Invocations : \E k \in Responses(i) :
    /\ inv[i].sessionId # NoSession
    /\ FrameAt(i, k).data \in SessionIds \ {inv[i].sessionId}

\* C6: abort(id) returns true exactly when id is a key of the map; then the
\* child stored under id is sent SIGTERM and the key is removed, so that the
\* same abort again returns false; otherwise it returns false and changes
\* nothing. The abort-session handler replies with that value.
AbortReturn(id) ==
  LET map == activeClaudeProcesses
      r == abortClaudeSession(map, inv, id)
  IN /\ r.ret = MapHas(map, id)
     /\ r.ret =>
          /\ r.inv[MapGet(map, id)].sigterm
          /\ ~MapHas(r.map, id)
          /\ \A k \in Keys \ {id} : MapHas(r.map, k) = MapHas(map, k)
          /\ ~abortClaudeSession(r.map, r.inv, id).ret
     /\ ~r.ret => r.map = map /\ r.inv = inv
AbortStep(s, id) ==
  AbortFrame(s, id) =>
    /\ lastReply'.success = MapHas(activeClaudeProcesses, id)
    /\ MapHas(activeClaudeProcesses, id) =>
         /\ inv'[MapGet(activeClaudeProcesses, id)].sigterm
         /\ ~MapHas(activeClaudeProcesses', id)
    /\ ~MapHas(activeClaudeProcesses, id) =>
         /\ activeClaudeProcesses' = activeClaudeProcesses
         /\ inv' = inv
AbortContract ==
  /\ [](\A id \in Keys : AbortReturn(id))
  /\ [][\A s \in Sockets, id \in AbortIds : AbortStep(s, id)]_vars

\* an abort found a child, and the reply said so
AbortFoundChildReached ==
  /\ lastReply.success
  /\ \E i \in Invocations : inv[i].sigterm /\ Live(i)
  /\ ~MapHas(activeClaudeProcesses, lastReply.sessionId)

\* C7: an abort-session frame that names a key of the map is answered with
\* session-aborted, success = true, before the invocation stored under that
\* key has sent its complete frame; and, the child exiting on SIGTERM, that
\* invocation then sends its complete frame.
AbortReply(s, id) ==
  LET map == activeClaudeProcesses
  IN AbortFrame(s, id) /\ MapHas(map, id) =>
       /\ lastReply' = [to |-> s, sessionId |-> id, success |-> TRUE]
       /\ Completes(MapGet(map, id)) = {}
       /\ frames'[MapGet(map, id)] = frames[MapGet(map, id)]
Signalled(i) == i \in Invocations /\ inv[i].sigterm
Completed(i) == i \in Invocations /\ Completes(i) # {}
Rekeyed(i) ==
  LET map == activeClaudeProcesses
      s == inv[i].capturedSessionId
      key == inv[i].processKey
  IN /\ <<s, i>> \in map
     /\ <<key, i>> \notin map
     /\ abortClaudeSession(map, inv, s).inv[i].sigterm
     /\ ~abortClaudeSession(map, inv, key).inv[i].sigterm
CapturedAndLive(i) ==
  /\ inv[i].sessionId = NoSession
  /\ inv[i].capturedSessionId # NoSession
  /\ Live(i)
  /\ ~inv[i].sigterm
SocketCloseAborts ==
  [][\A s \in Sockets :
       sock[s] = "open" /\ sock'[s] = "closed" =>
         /\ s \notin connectedClients'
         /\ \A i \in Invocations : inv[i].ws = s /\ Live(i) => inv'[i].sigterm]_vars

\* C10: when the server exits after a shutdown signal, every child that was
\* live when the signal arrived has been sent SIGTERM.
ShutdownSignalsChildren ==
  server = "exited" => \A i \in liveAtSignal : inv[i].sigterm

\* ====================================================== the env store
\* envRead and claudeEnv record what was read from the store as it is now: a
\* write to the store makes them history
Forgotten == envRead' = NoRead /\ claudeEnv' = NotSpawned

\* PUT /:key
PutEnv(key, value) ==
  /\ claudeEnvStore' = setClaudeEnvVar(claudeEnvStore, key, value)
  /\ Forgotten
  /\ UNCHANGED <<besidesEnv, processEnv>>

\* DELETE /:key
DeleteEnv(key) ==
  /\ claudeEnvStore' = deleteClaudeEnvVar(claudeEnvStore, key)
  /\ Forgotten
  /\ UNCHANGED <<besidesEnv, processEnv>>

\* POST /bulk
BulkEnv(envVars) ==
  /\ claudeEnvStore' = bulkUpdateClaudeEnvVars(claudeEnvStore, envVars, DOMAIN envVars)
  /\ Forgotten
  /\ UNCHANGED <<besidesEnv, processEnv>>

\* GET /: every stored variable, its value masked
ListEnv ==
  /\ envRead' = [kind |-> "list", key |-> EmptyKey, status |-> 200,
                 envVars |-> {MaskedEnvVar(env) : env \in getAllClaudeEnvVars(claudeEnvStore)}]
  /\ UNCHANGED <<besidesEnv, processEnv, claudeEnvStore, claudeEnv>>

\* GET /:key: 404, or the variable with its value masked
GetEnv(key) ==
  /\ envRead' = IF key \in DOMAIN claudeEnvStore
                THEN [kind |-> "get", key |-> key, status |-> 200,
                      envVars |-> {MaskedEnvVar(claudeEnvStore[key])}]
                ELSE [kind |-> "get", key |-> key, status |-> 404, envVars |-> {}]
  /\ UNCHANGED <<besidesEnv, processEnv, claudeEnvStore, claudeEnv>>

\* spawnClaude builds claudeEnv and hands it to spawn('claude', args, {env})
SpawnEnv(optionsEnv) ==
  /\ claudeEnv' = [spawned |-> TRUE,
                   env |-> ClaudeEnv(processEnv, claudeEnvStore, optionsEnv)]
  /\ UNCHANGED <<besidesEnv, processEnv, claudeEnvStore, envRead>>

EnvInit ==
  /\ GatewayInit
  /\ WatcherIdle
  /\ SessionIdle
  /\ ProjectsIdle /\ CliIdle
  /\ processEnv \in HostEnvs
  /\ claudeEnvStore = NoRecord
  /\ envRead = NoRead
  /\ claudeEnv = NotSpawned
EnvNext ==
  \/ \E key \in StoreKeys, value \in StoreValues : PutEnv(key, value)
  \/ \E key \in StoreKeys : DeleteEnv(key)
  \/ \E envVars \in BulkEnvs : BulkEnv(envVars)
  \/ ListEnv
  \/ \E key \in StoreKeys : GetEnv(key)
  \/ \E optionsEnv \in ExtraEnvs : SpawnEnv(optionsEnv)
EnvSpec == EnvInit /\ [][EnvNext]_vars

\* ------------------------------------------------------ the claims
AllEnvKeys == StoreKeys \cup essentialVars \cup {EmptyKey}
\* the layers, key by key: the request, else the store, else the host's value
\* of a whitelisted key
Layered(k, whitelisted, store, extra, env) ==
  IF k \in DOMAIN extra THEN k \in DOMAIN env /\ env[k] = extra[k]
  ELSE IF k \in DOMAIN store THEN k \in DOMAIN env /\ env[k] = store[k].value
  ELSE IF k \in DOMAIN whitelisted THEN k \in DOMAIN env /\ env[k] = whitelisted[k]
  ELSE k \notin DOMAIN env
\* hosts that differ from this one in variables off the whitelist only
OtherHosts ==
  {ObjectAssign(Only(processEnv, essentialVars), h) :
     h \in UNION {[keys -> {"", HostValue, "other"}] :
                    keys \in SUBSET {API_KEY, DEBUG}}}
Isolated(store, extra, env) ==
  \A host \in OtherHosts : ClaudeEnv(host, store, extra) = env

\* C11 (as stated): the env of a spawned child is the whitelisted host
\* variables, overridden by the store's record, overridden by the request's
\* extraEnv; it is the same for hosts that differ off the whitelist.
ChildEnvIsLayered ==
  [][\A extra \in ExtraEnvs :
       SpawnEnv(extra) =>
         /\ \A k \in AllEnvKeys :
              Layered(k, Only(processEnv, essentialVars), claudeEnvStore, extra,
                      claudeEnv'.env)
         /\ Isolated(claudeEnvStore, extra, claudeEnv'.env)]_vars

\* C11 (amended): the same, for the whitelisted host variables whose value is
\* not empty; a whitelisted variable that the host has set to "" is left out.
NonEmpty(record) == [k \in {e \in DOMAIN record : record[e] # ""} |-> record[k]]
ChildEnvIsLayeredNonEmpty ==
  [][\A extra \in ExtraEnvs :
       SpawnEnv(extra) =>
         /\ \A k \in AllEnvKeys :
              Layered(k, NonEmpty(Only(processEnv, essentialVars)), claudeEnvStore,
                      extra, claudeEnv'.env)
         /\ Isolated(claudeEnvStore, extra, claudeEnv'.env)]_vars

\* a child was given an env on a host with API_KEY and an empty LC_ALL: it has
\* the store's API_KEY or none, and no LC_ALL
ChildEnvReached ==
  /\ claudeEnv.spawned
  /\ AUTH_TOKEN \in DOMAIN processEnv
  /\ LC_ALL \in DOMAIN processEnv /\ processEnv[LC_ALL] = ""
  /\ PATH \in DOMAIN claudeEnvStore
  /\ AUTH_TOKEN \notin DOMAIN claudeEnv.env
  /\ LC_ALL \notin DOMAIN claudeEnv.env

\* C12: GET / and GET /:key give the sentinel for a stored key that contains
\* TOKEN, KEY or SECRET and has a value, "" when its value is empty, and the
\* stored value of any other key; the env of a child has the stored values.
SensitiveKeys == {API_KEY, AUTH_TOKEN, MY_SECRETS}
Shown(env) ==
  LET stored == claudeEnvStore[env.key].value
  IN IF env.key \in SensitiveKeys
     THEN env.value = (IF stored = "" THEN "" ELSE Hidden)
     ELSE env.value = stored
ExtraValues(k) == {extra[k] : extra \in {x \in ExtraEnvs : k \in DOMAIN x}}
MaxEvents == 3
\* the sockets of two clients
WatcherSockets == {"wsA", "wsB"}
\* the raw event kinds listened to (two of add, change, unlink, addDir, unlinkDir)
EventTypes == {"add", "unlink"}
\* paths are their segments; path.join(os.homedir(), '.claude', 'projects')
claudeProjectsPath == <<"home", "u", ".claude", "projects">>
WatchedPaths == {claudeProjectsPath \o <<"p", "a.jsonl">>, claudeProjectsPath \o <<"q">>}
\* path.relative(from, to) for a path below from
Relative(from, to) == SubSeq(to, Len(from) + 1, Len(to))
\* WebSocket.OPEN, and the readyState the watcher client was given: the value
\* ws.readyState had in open(ws), copied once
OPEN == 1
ClientReadyState(client) == OPEN

\* a watch event: debouncedUpdate clears the timer it holds and sets a new one.
\* The event continues the burst of the one before it when that one's timer
\* has not yet run out (it came less than 300 ms ago)
WatchEvent(eventType, filePath) ==
  /\ Len(events) < MaxEvents
  /\ LET n == Len(events) + 1
         burst == IF n = 1 THEN 1
                  ELSE IF (n - 1) \in timers THEN events[n - 1].burst
                  ELSE events[n - 1].burst + 1
     IN /\ events' = Append(events, [eventType |-> eventType, filePath |-> filePath,
                                     burst |-> burst])
        /\ timers' = (IF debounceTimer # 0 THEN timers \ {debounceTimer} ELSE timers)
                       \cup {n}
        /\ debounceTimer' = n
  /\ UNCHANGED <<broadcasting, updates, sock, connectedClients, besidesWatcher>>

\* 300 ms after it was set a timer fires, the oldest first: broadcastProjectUpdate
\* returns at once without clients, else awaits discoverProjects()
TimerFire(t) ==
  /\ t \in timers
  /\ \A u \in timers : t <= u
  /\ timers' = timers \ {t}
  /\ IF connectedClients = {}
     THEN debounceTimer' = 0 /\ UNCHANGED broadcasting
     ELSE broadcasting' = broadcasting \cup {t} /\ UNCHANGED debounceTimer
  /\ UNCHANGED <<events, updates, sock, connectedClients, besidesWatcher>>

\* discoverProjects() has resolved: the message goes to every client whose
\* readyState is OPEN (the wrapper's send drops it unless the socket is open,
\* ws.send may throw), the clients to remove are removed, debounceTimer = null
BroadcastDone(t, throwing) ==
  /\ t \in broadcasting
  /\ throwing \subseteq {c \in connectedClients : sock[c] = "open"}
  /\ LET ready == {c \in connectedClients : ClientReadyState(c) = OPEN}
         clientsToRemove == (connectedClients \ ready) \cup throwing
     IN /\ updates' = Append(updates,
                        [timer |-> t,
                         changeType |-> events[t].eventType,
                         changedFile |-> Relative(claudeProjectsPath, events[t].filePath),
                         to |-> {c \in ready \ throwing : sock[c] = "open"}])
        /\ connectedClients' = connectedClients \ clientsToRemove
  /\ broadcasting' = broadcasting \ {t}
  /\ debounceTimer' = 0
  /\ UNCHANGED <<events, timers, sock, besidesWatcher>>

\* a socket stops being open (ws.readyState is no longer 1) before its close
\* handler has run
SocketLost(s) ==
  /\ sock[s] = "open"
  /\ sock' = [sock EXCEPT ![s] = "closing"]
  /\ UNCHANGED <<connectedClients, watcherVars, besidesWatcher>>

WatchInit ==
  GatewayStart(WatcherSockets) /\ EnvIdle /\ WatcherIdle /\ SessionIdle /\ ProjectsIdle /\ CliIdle
WatchNext ==
  \/ \E s \in WatcherSockets : Open(s)
  \/ \E s \in WatcherSockets : SocketLost(s)
  \/ \E s \in WatcherSockets : CloseSocket(s)
  \/ \E eventType \in EventTypes, filePath \in WatchedPaths : WatchEvent(eventType, filePath)
  \/ \E t \in 1..MaxEvents : TimerFire(t)
  \/ \E t \in 1..MaxEvents, throwing \in SUBSET WatcherSockets : BroadcastDone(t, throwing)
WatchSpec == WatchInit /\ [][WatchNext]_vars

\* ------------------------------------------------------ the claims
Updates == 1..Len(updates)
BurstOf(t) == events[t].burst
LastOfBurst(t) == \A n \in 1..Len(events) : events[n].burst = BurstOf(t) => n <= t

\* C13: a burst of watch events, each less than 300 ms after the one before,
\* gives one projects_updated broadcast with clients attached: the timer of
\* its last event fires and starts it, no other timer of the burst does, and
\* the broadcast carries the last event's kind and file.
OneBroadcastOfBurst(k) ==
  LET t == updates[k].timer
  IN /\ LastOfBurst(t)
     /\ \A j \in Updates : BurstOf(updates[j].timer) = BurstOf(t) => j = k
     /\ updates[k].changeType = events[t].eventType
     /\ updates[k].changedFile = Relative(claudeProjectsPath, events[t].filePath)
OneBroadcastPerBurst ==
  /\ [](\A k \in Updates : OneBroadcastOfBurst(k))
  /\ [][\A t \in 1..MaxEvents :
          TimerFire(t) =>
            /\ LastOfBurst(t)
            /\ connectedClients # {} => t \in broadcasting']_vars

\* C14: the broadcast made when the debounce has fired reaches every
\* registered client whose socket is open and whose send does not throw, once;
\* the clients whose send throws or whose socket is no longer open leave the
\* registry in that broadcast; a socket whose close was handled gets nothing.
LatestUpdate == updates'[Len(updates')]
Swept(t, throwing) ==
  BroadcastDone(t, throwing) =>
    /\ Len(updates') = Len(updates) + 1
    /\ LatestUpdate.to = {c \in connectedClients : sock[c] = "open"} \ throwing
    /\ connectedClients' =
         connectedClients \ (throwing \cup {c \in connectedClients : sock[c] # "open"})
    /\ \A s \in WatcherSockets : sock[s] = "closed" => s \notin LatestUpdate.to
BroadcastReachesAndSweeps ==
  [][\A t \in 1..MaxEvents, throwing \in SUBSET WatcherSockets : Swept(t, throwing)]_vars

\* ------------------------------------------------------ sessionManagerNew.ts
MaxLines == 2
MaxTime == 2
MaxOffset == 3
\* the time of a parse, later than every timestamp logged
ParseTime == MaxTime + 1
\* limit = null
Null == -1
LogSessionIds == {"x", "y"}
Roles == {"user", "assistant", ""}

\* a line of a log: a JSON object (sessionId, message.role, timestamp and cwd,
\* "" or 0 when the object has none), a line that is not JSON, or a blank line
Entry(sessionId, role, timestamp, cwd) ==
  [kind |-> "entry", sessionId |-> sessionId, role |-> role,
   timestamp |-> timestamp, cwd |-> cwd]
Malformed == [kind |-> "malformed", sessionId |-> "", role |-> "", timestamp |-> 0, cwd |-> NoCwd]
Blank == [kind |-> "blank", sessionId |-> "", role |-> "", timestamp |-> 0, cwd |-> NoCwd]
ListLines ==
  {Entry("x", role, timestamp, NoCwd) : role \in Roles, timestamp \in 1..MaxTime}
    \cup {Entry("x", "user", 0, NoCwd), Entry("y", "user", 1, NoCwd), Malformed}
DeleteLines ==
  {Entry("x", "user", 1, NoCwd), Entry("x", "assistant", 2, NoCwd), Entry("y", "user", 1, NoCwd),
   Entry("", "", 1, NoCwd), Malformed, Blank}
PageLines ==
  {Entry("x", "user", timestamp, NoCwd) : timestamp \in 0..MaxTime}
    \cup {Entry("y", "user", 1, NoCwd), Malformed}

\* line.trim() is not empty and JSON.parse(line) succeeds
Parses(line) == line.kind = "entry"
\* Array.prototype.slice(start, end)
Slice(seq, start, end) ==
  LET len == Len(seq)
      from == IF start < 0 THEN (IF len + start < 0 THEN 0 ELSE len + start)
              ELSE (IF start > len THEN len ELSE start)
      to == IF end < 0 THEN (IF len + end < 0 THEN 0 ELSE len + end)
            ELSE (IF end > len THEN len ELSE end)
  IN SubSeq(seq, from + 1, to)
\* readdir(projectPath) filtered to .jsonl
Readdir == SelectSeq(FileNames, LAMBDA f : f \in jsonlFiles)

\* one line of parseJsonlSessions: sessions is the Map, in insertion order
CountsAsMessage(entry) == entry.role = "user" \/ entry.role = "assistant"
parseLine(sessions, line) ==
  IF ~Parses(line) \/ line.sessionId = "" THEN sessions
  ELSE LET has == \E i \in DOMAIN sessions : sessions[i].id = line.sessionId
           set == IF has THEN sessions
                  ELSE Append(sessions, [id |-> line.sessionId, messageCount |-> 0,
                                         lastActivity |-> ParseTime])
           i == CHOOSE j \in DOMAIN set : set[j].id = line.sessionId
           counted == IF CountsAsMessage(line)
                      THEN [set EXCEPT ![i].messageCount = @ + 1] ELSE set
       IN IF line.timestamp # 0
          THEN [counted EXCEPT ![i].lastActivity = line.timestamp] ELSE counted
\* sort((a, b) => b.lastActivity - a.lastActivity), a stable sort
RECURSIVE sortByLastActivity(_)
sortByLastActivity(sessions) ==
  IF sessions = <<>> THEN <<>>
  ELSE LET n == Len(sessions)
           rest == sortByLastActivity(SubSeq(sessions, 1, n - 1))
           k == Cardinality({i \in DOMAIN rest :
                               rest[i].lastActivity >= sessions[n].lastActivity})
       IN SubSeq(rest, 1, k) \o <<sessions[n]>> \o SubSeq(rest, k + 1, n - 1)
RECURSIVE parseLines(_, _)
parseLines(sessions, lines) ==
  IF lines = <<>> THEN sessions
  ELSE parseLines(parseLine(sessions, Head(lines)), Tail(lines))
parseJsonlSessions(lines) == sortByLastActivity(parseLines(<<>>, lines))

\* the merge of getClaudeSessions: the summary seen first for an id is kept
RECURSIVE mergeSessions(_, _)
mergeSessions(allSessions, sessions) ==
  IF sessions = <<>> THEN allSessions
  ELSE LET session == Head(sessions)
           has == \E i \in DOMAIN allSessions : allSessions[i].id = session.id
       IN mergeSessions(IF has THEN allSessions ELSE Append(allSessions, session),
                        Tail(sessions))
RECURSIVE mergeFiles(_, _, _)
mergeFiles(allSessions, filesWithStats, text) ==
  IF filesWithStats = <<>> THEN allSessions
  ELSE mergeFiles(mergeSessions(allSessions, parseJsonlSessions(text[Head(filesWithStats)])),
                  Tail(filesWithStats), text)
getClaudeSessions(filesWithStats, text, limit, offset) ==
  IF filesWithStats = <<>>
  THEN [sessions |-> <<>>, total |-> 0, hasMore |-> FALSE, offset |-> offset, limit |-> limit]
  ELSE LET sortedSessions == sortByLastActivity(mergeFiles(<<>>, filesWithStats, text))
           total == Len(sortedSessions)
       IN [sessions |-> Slice(sortedSessions, offset, offset + limit),
           total |-> total, hasMore |-> offset + limit < total,
           offset |-> offset, limit |-> limit]

\* sort((a, b) => a.timestamp - b.timestamp), a stable sort
RECURSIVE sortByTimestamp(_)
sortByTimestamp(messages) ==
  IF messages = <<>> THEN <<>>
  ELSE LET n == Len(messages)
           rest == sortByTimestamp(SubSeq(messages, 1, n - 1))
           k == Cardinality({i \in DOMAIN rest : rest[i].timestamp <= messages[n].timestamp})
       IN SubSeq(rest, 1, k) \o <<messages[n]>> \o SubSeq(rest, k + 1, n - 1)
RECURSIVE collectMessages(_, _, _)
collectMessages(files, text, sessionId) ==
  IF files = <<>> THEN <<>>
  ELSE SelectSeq(text[Head(files)], LAMBDA line : Parses(line) /\ line.sessionId = sessionId)
         \o collectMessages(Tail(files), text, sessionId)
\* with limit = null the call returns the list alone: total and hasMore are
\* then only the list's length and FALSE
getClaudeSessionMessages(files, text, sessionId, limit, offset) ==
  LET sortedMessages == sortByTimestamp(collectMessages(files, text, sessionId))
      total == Len(sortedMessages)
      startIndex == IF total - offset - limit > 0 THEN total - offset - limit ELSE 0
      endIndex == total - offset
  IN IF files = <<>>
     THEN [sessionId |-> sessionId, messages |-> <<>>, total |-> 0, hasMore |-> FALSE,
           offset |-> offset, limit |-> limit]
     ELSE IF limit = Null
     THEN [sessionId |-> sessionId, messages |-> sortedMessages, total |-> total,
           hasMore |-> FALSE, offset |-> offset, limit |-> limit]
     ELSE [sessionId |-> sessionId, messages |-> Slice(sortedMessages, startIndex, endIndex),
           total |-> total, hasMore |-> startIndex > 0, offset |-> offset, limit |-> limit]

\* the file written last comes first
Touched(file) == <<file>> \o SelectSeq(mtimes, LAMBDA f : f # file)
Running == del.pc \in {"read", "write"}

\* the agent appends a line to a log, creating the file if need be
AppendLine(file, line, max) ==
  /\ Len(content[file]) < max
  /\ content' = [content EXCEPT ![file] = Append(@, line)]
  /\ jsonlFiles' = jsonlFiles \cup {file}
  /\ mtimes' = Touched(file)
  /\ listing' = NoListing
  /\ page' = NoPage
  /\ del' = IF Running THEN del ELSE NoDelete
  /\ extractedPath' = NoPath
  /\ UNCHANGED besidesSessions

ListSessions(limit, offset) ==
  /\ ~Running
  /\ listing' = getClaudeSessions(mtimes, content, limit, offset)
  /\ page' = NoPage
  /\ extractedPath' = NoPath
  /\ UNCHANGED <<jsonlFiles, content, mtimes, del, besidesSessions>>

GetMessages(sessionId, limit, offset) ==
  /\ ~Running
  /\ page' = getClaudeSessionMessages(Readdir, content, sessionId, limit, offset)
  /\ listing' = NoListing
  /\ extractedPath' = NoPath
  /\ UNCHANGED <<jsonlFiles, content, mtimes, del, besidesSessions>>

\* deleteSession up to its first readFile: without a .jsonl file it throws
DeleteStart(sessionId) ==
  /\ ~Running
  /\ del' = IF jsonlFiles = {}
            THEN [NoDelete EXCEPT !.pc = "failed", !.sessionId = sessionId,
                                  !.before = content]
            ELSE [NoDelete EXCEPT !.pc = "read", !.sessionId = sessionId,
                                  !.todo = Readdir, !.before = content]
  /\ listing' = NoListing
  /\ page' = NoPage
  /\ extractedPath' = NoPath
  /\ UNCHANGED <<jsonlFiles, content, mtimes, besidesSessions>>

\* readFile of the next file, split into its non-blank lines
DeleteRead ==
  /\ del.pc = "read"
  /\ del.todo # <<>>
  /\ del' = [del EXCEPT !.pc = "write",
                        !.lines = SelectSeq(content[Head(del.todo)],
                                         LAMBDA line : line.kind # "blank")]
  /\ UNCHANGED <<jsonlFiles, content, mtimes, listing, page, extractedPath, besidesSessions>>

\* readFile rejects: the call throws
DeleteReadFails ==
  /\ del.pc = "read"
  /\ del.todo # <<>>
  /\ del' = [del EXCEPT !.pc = "failed"]
  /\ UNCHANGED <<jsonlFiles, content, mtimes, listing, page, extractedPath, besidesSessions>>

\* the lines deleteSession writes back
filteredLines_dropsMalformed(lines, sessionId) ==
  SelectSeq(lines, LAMBDA line : Parses(line) /\ line.sessionId # sessionId)
filteredLines(lines, sessionId) ==
  SelectSeq(lines, LAMBDA line : ~Parses(line) \/ line.sessionId # sessionId)
hasSession_always(lines, sessionId) == TRUE
hasSession(lines, sessionId) ==
  \E i \in DOMAIN lines : Parses(lines[i]) /\ lines[i].sessionId = sessionId
\* the file just read is written back without the session's lines if it has any
DeleteWrite ==
  /\ del.pc = "write"
  /\ LET file == Head(del.todo)
     IN IF hasSession(del.lines, del.sessionId)
        THEN /\ content' = [content EXCEPT ![file] = filteredLines(del.lines, del.sessionId)]
             /\ mtimes' = Touched(file)
             /\ del' = [del EXCEPT !.pc = "read", !.todo = Tail(@), !.lines = <<>>,
                                   !.sessionFound = TRUE, !.written = @ \cup {file}]
        ELSE /\ del' = [del EXCEPT !.pc = "read", !.todo = Tail(@), !.lines = <<>>]
             /\ UNCHANGED <<content, mtimes>>
  /\ UNCHANGED <<jsonlFiles, listing, page, extractedPath, besidesSessions>>

\* every file has been looked at: the call throws if none had the session
DeleteEnd ==
  /\ del.pc = "read"
  /\ del.todo = <<>>
  /\ del' = [del EXCEPT !.pc = IF del.sessionFound THEN "done" ELSE "failed"]
  /\ UNCHANGED <<jsonlFiles, content, mtimes, listing, page, extractedPath, besidesSessions>>

ListLimits == {1, 5}
SessionInit == GatewayInit /\ EnvIdle /\ WatcherIdle /\ SessionIdle /\ ProjectsIdle /\ CliIdle
ListNext ==
  \/ \E file \in Files, line \in ListLines : AppendLine(file, line, MaxLines)
  \/ \E limit \in ListLimits, offset \in 0..1 : ListSessions(limit, offset)
ListSpec == SessionInit /\ [][ListNext]_vars

\* deleteSession with nothing else writing the directory while it runs
DeleteNext ==
  \/ \E file \in Files, line \in DeleteLines : ~Running /\ AppendLine(file, line, MaxLines)
  \/ \E sessionId \in LogSessionIds : DeleteStart(sessionId)
  \/ DeleteRead
  \/ DeleteReadFails
  \/ DeleteWrite
  \/ DeleteEnd
  \/ ListSessions(5, 0)
  \/ \E sessionId \in LogSessionIds : GetMessages(sessionId, Null, 0)
DeleteSpec == SessionInit /\ [][DeleteNext]_vars

PageLimits == {Null} \cup 0..2
PageNext ==
  \/ \E file \in Files, line \in PageLines : AppendLine(file, line, MaxLines)
  \/ \E sessionId \in LogSessionIds, limit \in PageLimits, offset \in 0..MaxOffset :
       GetMessages(sessionId, limit, offset)
PageSpec == SessionInit /\ [][PageNext]_vars

\* ------------------------------------------------------ extractProjectDirectory
MaxSame == 10
MaxTail == 3
\* the alias of the directory, and the cwd values its logs may hold: paths as
\* their characters, so that replace(/-/g, '/') is a real replacement
projectName == <<"-", "h", "-", "p">>
CwdA == <<"/", "h", "-", "p">>
CwdB == <<"/", "h", "/", "q">>
\* projectName.replace(/-/g, '/')
Decoded(name) == [i \in DOMAIN name |-> IF name[i] = "-" THEN "/" ELSE name[i]]
CwdLines == {Entry("x", "user", timestamp, cwd) : timestamp \in 0..MaxTime, cwd \in {CwdA, CwdB}}
OtherLogLines == {Entry("x", "user", 1, NoCwd), Entry("x", "user", MaxTime, CwdB), Malformed}
\* a log as the server finds it when it starts: a run of lines of one cwd,
\* then a few lines of any
Repeat(line, n) == [i \in 1..n |-> line]
Tails == UNION {[1..k -> CwdLines] : k \in 0..MaxTail}
Logs == {Repeat(Entry("x", "user", 1, CwdA), n) \o tail : n \in 0..MaxSame, tail \in Tails}

\* one line of the scan: cwdCounts is the Map in insertion order
NoScan == [cwdCounts |-> <<>>, latestTimestamp |-> 0, latestCwd |-> NoCwd]
scanLine(scan, line) ==
  IF ~Parses(line) \/ line.cwd = NoCwd THEN scan
  ELSE LET has == \E i \in DOMAIN scan.cwdCounts : scan.cwdCounts[i][1] = line.cwd
           counts == IF has
                     THEN [i \in DOMAIN scan.cwdCounts |->
                             IF scan.cwdCounts[i][1] = line.cwd
                             THEN <<line.cwd, scan.cwdCounts[i][2] + 1>>
                             ELSE scan.cwdCounts[i]]
                     ELSE Append(scan.cwdCounts, <<line.cwd, 1>>)
       IN IF line.timestamp > scan.latestTimestamp
          THEN [cwdCounts |-> counts, latestTimestamp |-> line.timestamp,
                latestCwd |-> line.cwd]
          ELSE [scan EXCEPT !.cwdCounts = counts]
RECURSIVE scanLines(_, _)
scanLines(scan, lines) ==
  IF lines = <<>> THEN scan ELSE scanLines(scanLine(scan, Head(lines)), Tail(lines))
RECURSIVE scanFiles(_, _, _)
scanFiles(scan, files, text) ==
  IF files = <<>> THEN scan
  ELSE scanFiles(scanLines(scan, text[Head(files)]), Tail(files), text)
\* sort((a, b) => b[1] - a[1]), a stable sort
RECURSIVE sortByCount(_)
sortByCount(entries) ==
  IF entries = <<>> THEN <<>>
  ELSE LET n == Len(entries)
           rest == sortByCount(SubSeq(entries, 1, n - 1))
           k == Cardinality({i \in DOMAIN rest : rest[i][2] >= entries[n][2]})
       IN SubSeq(rest, 1, k) \o <<entries[n]>> \o SubSeq(rest, k + 1, n - 1)
CountOf(cwdCounts, cwd) ==
  IF \E i \in DOMAIN cwdCounts : cwdCounts[i][1] = cwd
  THEN cwdCounts[CHOOSE i \in DOMAIN cwdCounts : cwdCounts[i][1] = cwd][2]
  ELSE 0
\* latestCount >= mostFrequentCount * 0.3, in tenths
ReasonableUsage_half(latestCount, mostFrequentCount) == 10 * latestCount >= 5 * mostFrequentCount
ReasonableUsage(latestCount, mostFrequentCount) == 10 * latestCount >= 3 * mostFrequentCount
\* the path computed when the cache has none
computedPath(name, files, text) ==
  LET scan == scanFiles(NoScan, files, text)
      cwdCounts == scan.cwdCounts
      entries == sortByCount(cwdCounts)
      mostFrequent == entries[1][1]
      latestCount == IF scan.latestCwd # NoCwd THEN CountOf(cwdCounts, scan.latestCwd) ELSE 0
      mostFrequentCount == CountOf(cwdCounts, mostFrequent)
  IN IF files = <<>> THEN Decoded(name)
     ELSE IF Len(cwdCounts) = 0 THEN Decoded(name)
     ELSE IF Len(cwdCounts) = 1 THEN cwdCounts[1][1]
     ELSE IF scan.latestCwd # NoCwd /\ ReasonableUsage(latestCount, mostFrequentCount)
     THEN scan.latestCwd
     ELSE mostFrequent

\* absolutePath.replace(/\//g, '-')
aliasOf(path) == [i \in DOMAIN path |-> IF path[i] = "/" THEN "-" ELSE path[i]]

extractProjectDirectory_recomputes(name) ==
  /\ ~Running
  /\ LET path == computedPath(name, Readdir, content)
     IN /\ projectDirectoryCache' = MapSet(projectDirectoryCache, name, path)
        /\ extractedPath' = [path |-> path, cached |-> FALSE]
  /\ listing' = NoListing
  /\ page' = NoPage
  /\ UNCHANGED <<jsonlFiles, content, mtimes, del, gatewayVars, envStoreVars, watcherVars,
               projectVars, cliVars>>
extractProjectDirectory(name) ==
  /\ ~Running
  /\ IF MapHas(projectDirectoryCache, name)
     THEN /\ extractedPath' = [path |-> MapGet(projectDirectoryCache, name), cached |-> TRUE]
          /\ UNCHANGED projectDirectoryCache
     ELSE LET path == computedPath(name, Readdir, content)
          IN /\ projectDirectoryCache' = MapSet(projectDirectoryCache, name, path)
             /\ extractedPath' = [path |-> path, cached |-> FALSE]
  /\ listing' = NoListing
  /\ page' = NoPage
  /\ UNCHANGED <<jsonlFiles, content, mtimes, del, gatewayVars, envStoreVars, watcherVars,
               projectVars, cliVars>>

AliasInit ==
  /\ GatewayInit /\ EnvIdle /\ WatcherIdle /\ ProjectsIdle /\ CliIdle
  /\ \E log \in Logs :
       /\ content = [f \in Files |-> IF f = FileNames[1] THEN log ELSE <<>>]
       /\ jsonlFiles = IF log = <<>> THEN {} ELSE {FileNames[1]}
       /\ mtimes = IF log = <<>> THEN <<>> ELSE <<FileNames[1]>>
  /\ listing = NoListing
  /\ page = NoPage
  /\ del = NoDelete
  /\ extractedPath = NoPath
  /\ projectDirectoryCache = {}
AliasNext ==
  \/ \E line \in CwdLines : AppendLine(FileNames[1], line, MaxTail)
  \/ \E line \in OtherLogLines : AppendLine(FileNames[2], line, 1)
  \/ extractProjectDirectory(projectName)
AliasSpec == AliasInit /\ [][AliasNext]_vars

\* the logs are also rewritten by deleteSession between two resolutions
CacheNext ==
  \/ \E line \in CwdLines : ~Running /\ AppendLine(FileNames[1], line, MaxTail)
  \/ \E line \in OtherLogLines : ~Running /\ AppendLine(FileNames[2], line, 1)
  \/ extractProjectDirectory(projectName)
  \/ DeleteStart("x")
  \/ DeleteRead
  \/ DeleteReadFails
  \/ DeleteWrite
  \/ DeleteEnd
CacheSpec == AliasInit /\ [][CacheNext]_vars

\* ------------------------------------------------------ the claims
LinesOf(file, sessionId) ==
  {i \in DOMAIN content[file] :
     Parses(content[file][i]) /\ content[file][i].sessionId = sessionId}
FilesWith(sessionId) == {file \in jsonlFiles : LinesOf(file, sessionId) # {}}
QualifyingIn(file, sessionId) ==
  Cardinality({i \in LinesOf(file, sessionId) :
                 content[file][i].role \in {"user", "assistant"}})
Listed == listing # NoListing
Summaries(sessionId) ==
  {i \in DOMAIN listing.sessions : listing.sessions[i].id = sessionId}

\* C15: a session with lines in two or more files of the directory has one
\* summary in the list, and its messageCount is the number of the session's
\* user and assistant lines counted over all those files.
MergedMessageCount ==
  \A sessionId \in LogSessionIds :
    Listed /\ listing.limit = 5 /\ listing.offset = 0
      /\ Cardinality(FilesWith(sessionId)) >= 2
    => /\ Cardinality(Summaries(sessionId)) = 1
       /\ \A i \in Summaries(sessionId) :
            listing.sessions[i].messageCount =
              QualifyingIn(FileNames[1], sessionId) + QualifyingIn(FileNames[2], sessionId)

StampsOf(sessionId) ==
  UNION {{content[file][i].timestamp : i \in LinesOf(file, sessionId)} :
           file \in jsonlFiles} \ {0}
\* C16: the lastActivity of a summary is the greatest timestamp among the
\* session's lines, over every file and whatever the order of the lines.
LastActivityIsMaximum ==
  \A i \in DOMAIN listing.sessions :
    Listed /\ StampsOf(listing.sessions[i].id) # {}
    => \A t \in StampsOf(listing.sessions[i].id) : t <= listing.sessions[i].lastActivity

Paged == page # NoPage /\ page.limit # Null
Chronological(sessionId) == sortByTimestamp(collectMessages(Readdir, content, sessionId))
AtLeastZero(n) == IF n > 0 THEN n ELSE 0

\* C17: with a limit, getMessages returns the messages at the positions
\* [max(0, total-offset-limit), max(0, total-offset)) of the session's
\* chronological list: at most limit of them, none when offset >= total,
\* and hasMore tells whether older messages remain before them.
PageIsTailWindow ==
  Paged =>
    LET sorted == Chronological(page.sessionId)
        total == Len(sorted)
        first == AtLeastZero(total - page.offset - page.limit)
        last == AtLeastZero(total - page.offset)
    IN /\ page.total = total
       /\ page.messages = SubSeq(sorted, first + 1, last)
       /\ Len(page.messages) <= page.limit
       /\ page.offset >= total => page.messages = <<>>
       /\ page.hasMore = (first > 0)

Has(lines, sessionId) ==
  \E i \in DOMAIN lines : Parses(lines[i]) /\ lines[i].sessionId = sessionId
Without(lines, sessionId) ==
  SelectSeq(lines, LAMBDA line : line.kind # "blank"
                                   /\ ~(Parses(line) /\ line.sessionId = sessionId))
Deleted == del.pc = "done"

Called == del.pc # "idle"
DeleteLeavesOtherFiles ==
  Called =>
    /\ \A file \in Files :
         ~Has(del.before[file], del.sessionId) => content[file] = del.before[file]
    /\ (\A file \in Files : ~Has(del.before[file], del.sessionId))
         => del.pc # "done" /\ content = del.before
    /\ del.pc = "failed" /\ del.todo = <<>> => content = del.before
OtherFileUntouchedReached ==
  /\ Deleted
  /\ \E file \in jsonlFiles \ del.written :
       \E i \in DOMAIN content[file] : content[file][i] = Blank

CwdLinesIn(cwd) ==
  {<<file, i>> \in jsonlFiles \X (1..(MaxSame + MaxTail)) :
     /\ i \in DOMAIN content[file]
     /\ Parses(content[file][i])
     /\ content[file][i].cwd = cwd}
Cwds == {cwd \in {CwdA, CwdB} : CwdLinesIn(cwd) # {}}
CwdCount(cwd) == Cardinality(CwdLinesIn(cwd))
MostFrequent == {cwd \in Cwds : \A other \in Cwds : CwdCount(other) <= CwdCount(cwd)}
StampsOfCwd(cwd) == {content[l[1]][l[2]].timestamp : l \in CwdLinesIn(cwd)}
Latest ==
  {cwd \in Cwds :
     \E t \in StampsOfCwd(cwd) :
       t > 0 /\ \A other \in Cwds : \A u \in StampsOfCwd(other) : u <= t}
Computed == extractedPath # NoPath /\ ~extractedPath.cached

\* C20: the path computed for an alias follows the selection rule: the alias
\* with '/' for each '-' when the logs have no cwd, the cwd when they have
\* one, and with several the cwd of the latest timestamp when
\* 10 * its count >= 3 * the greatest count, else a cwd of the greatest count.
SelectionRule ==
  Computed =>
    LET path == extractedPath.path
    IN /\ Cwds = {} => path = Decoded(projectName)
       /\ Cardinality(Cwds) = 1 => path \in Cwds
       /\ Cardinality(Cwds) > 1 =>
            \/ /\ path \in Latest
               /\ \A most \in MostFrequent : 10 * CwdCount(path) >= 3 * CwdCount(most)
            \/ /\ path \in MostFrequent
               /\ \A latest \in Latest, most \in MostFrequent :
                    10 * CwdCount(latest) < 3 * CwdCount(most)
\* {A: 10, B: 3} with B the most recent gives B
LatestPreferredAtThresholdReached ==
  /\ Computed
  /\ CwdCount(CwdA) = 10 /\ CwdCount(CwdB) = 3
  /\ Latest = {CwdB}
  /\ extractedPath.path = CwdB

Resolved == extractedPath # NoPath

\* C21: resolveAlias(aliasOf(P)) is P whenever a log line of the alias
\* directory has cwd P, whatever other cwd the logs hold and whenever the
\* alias was first resolved.
AliasRoundTrip ==
  \A P \in {CwdA, CwdB} :
    Resolved /\ aliasOf(P) = projectName /\ CwdLinesIn(P) # {}
      => extractedPath.path = P

\* C22: the cache is write-once per alias: once a path has been returned for
\* the alias the cache keeps it, and every later call returns it, whatever
\* is appended to the logs or removed from them in between.
CacheKeeps ==
  MapHas(projectDirectoryCache, projectName) => projectDirectoryCache' = projectDirectoryCache
MaxProjectLines == 1
\* process.cwd() of the server
processCwd == <<"/", "h">>
\* the name in the package.json of a project path, <<>> where there is none
ManifestName(path) == IF path = PathP THEN <<"k">> ELSE <<>>
AddPaths == {PathP, PathQ, <<"q">>}
DisplayNames == {<<>>, <<" ">>, <<"n">>, <<" ", "n">>}
ProjectLogLines == {Blank, Entry("x", "user", 1, PathP)}

\* String.prototype.trim
RECURSIVE TrimStart(_)
TrimStart(str) == IF str # <<>> /\ Head(str) = " " THEN TrimStart(Tail(str)) ELSE str
RECURSIVE TrimEnd(_)
TrimEnd(str) ==
  IF str # <<>> /\ str[Len(str)] = " " THEN TrimEnd(SubSeq(str, 1, Len(str) - 1)) ELSE str
Trim(str) == TrimEnd(TrimStart(str))
\* String.prototype.split('/')
RECURSIVE Split(_)
Split(str) ==
  IF \A i \in DOMAIN str : str[i] # "/" THEN <<str>>
  ELSE LET i == CHOOSE j \in DOMAIN str :
                  str[j] = "/" /\ \A l \in 1..(j - 1) : str[l] # "/"
       IN <<SubSeq(str, 1, i - 1)>> \o Split(SubSeq(str, i + 1, Len(str)))
Last(seq) == seq[Len(seq)]
\* a || b for strings
OrElse(a, b) == IF a # <<>> THEN a ELSE b

\* the config object: its keys in insertion order
ConfigHas(cfg, key) == \E i \in DOMAIN cfg : cfg[i][1] = key
ConfigGet(cfg, key) == cfg[CHOOSE i \in DOMAIN cfg : cfg[i][1] = key][2]
ConfigDelete(cfg, key) == SelectSeq(cfg, LAMBDA e : e[1] # key)
ConfigSet(cfg, key, entry) ==
  IF ConfigHas(cfg, key)
  THEN [i \in DOMAIN cfg |-> IF cfg[i][1] = key THEN <<key, entry>> ELSE cfg[i]]
  ELSE Append(cfg, <<key, entry>>)
\* {}
NoEntry == [manuallyAdded |-> FALSE, originalPath |-> <<>>, displayName |-> <<>>]

\* generateDisplayName of projectConfig.ts
configDisplayName(name, projectPath) ==
  IF projectPath \in realPaths /\ ManifestName(projectPath) # <<>>
  THEN ManifestName(projectPath)
  ELSE OrElse(Last(Split(projectPath)), name)
\* generateDisplayName of the discovery
generateDisplayName(name, actualProjectDir) ==
  LET projectPath == OrElse(actualProjectDir, Decoded(name))
      parts == SelectSeq(Split(projectPath), LAMBDA part : part # <<>>)
  IN IF projectPath \in realPaths /\ ManifestName(projectPath) # <<>>
     THEN ManifestName(projectPath)
     ELSE IF projectPath # <<>> /\ projectPath[1] = "/"
     THEN (IF parts # <<>> THEN Last(parts) ELSE projectPath)
     ELSE projectPath

Asked == projects' = NoProjects
addProjectManually(projectPath, displayName) ==
  LET absolutePath == IF projectPath[1] = "/" THEN projectPath
                      ELSE processCwd \o <<"/">> \o projectPath
      name == aliasOf(absolutePath)
      entry == [manuallyAdded |-> TRUE, originalPath |-> absolutePath,
                displayName |-> displayName]
  IN /\ IF absolutePath \notin realPaths \/ ConfigHas(config, name)
        THEN configResult' = Failed("add") /\ UNCHANGED config
        ELSE configResult' = Ok("add") /\ config' = ConfigSet(config, name, entry)
     /\ Asked
     /\ UNCHANGED <<projectDirs, realPaths, gatewayVars, envStoreVars, watcherVars, sessionVars, cliVars>>

renameProject(name, newDisplayName) ==
  /\ config' = IF Trim(newDisplayName) = <<>>
               THEN ConfigDelete(config, name)
               ELSE ConfigSet(config, name,
                              [(IF ConfigHas(config, name) THEN ConfigGet(config, name)
                                ELSE NoEntry)
                                 EXCEPT !.displayName = Trim(newDisplayName)])
  /\ configResult' = Ok("rename")
  /\ Asked
  /\ UNCHANGED <<projectDirs, realPaths, gatewayVars, envStoreVars, watcherVars, sessionVars, cliVars>>

\* content.trim() of a file is not empty
HasContent(lines) == \E i \in DOMAIN lines : lines[i].kind # "blank"
isProjectEmpty_always(dir) == TRUE
isProjectEmpty(dir) ==
  ~dir.exists \/ \A file \in dir.files : ~HasContent(dir.text[file])
deleteProject(name) ==
  /\ IF ~isProjectEmpty(projectDirs[name])
     THEN configResult' = Failed("delete") /\ UNCHANGED <<config, projectDirs>>
     ELSE /\ configResult' = Ok("delete")
          /\ projectDirs' = [projectDirs EXCEPT ![name] = NoDir]
          /\ config' = ConfigDelete(config, name)
  /\ Asked
  /\ UNCHANGED <<realPaths, gatewayVars, envStoreVars, watcherVars, sessionVars, cliVars>>

\* discoverClaudeProjects: the alias directories in readdir order, each
\* resolved through the cache
ReaddirOf(dir) == SelectSeq(FileNames, LAMBDA f : f \in dir.files)
RECURSIVE discoverClaudeProjects(_, _, _)
discoverClaudeProjects(projectDirNames, found, cache) ==
  IF projectDirNames = <<>> THEN [projects |-> found, cache |-> cache]
  ELSE LET projectDir == Head(projectDirNames)
           dir == projectDirs[projectDir]
           actualPath == IF MapHas(cache, projectDir) THEN MapGet(cache, projectDir)
                         ELSE computedPath(projectDir, ReaddirOf(dir), dir.text)
           project == [name |-> projectDir, path |-> actualPath,
                       displayName |-> generateDisplayName(projectDir, actualPath),
                       isCustomName |-> FALSE, isManuallyAdded |-> FALSE]
       IN discoverClaudeProjects(Tail(projectDirNames), Append(found, project),
                                 MapSet(cache, projectDir, actualPath))
RECURSIVE getManuallyAddedProjects(_)
getManuallyAddedProjects(cfg) ==
  IF cfg = <<>> THEN <<>>
  ELSE LET name == Head(cfg)[1]
           projectConfig == Head(cfg)[2]
           project == [name |-> name, path |-> projectConfig.originalPath,
                       displayName |-> OrElse(projectConfig.displayName,
                                              configDisplayName(name, projectConfig.originalPath)),
                       isCustomName |-> projectConfig.displayName # <<>>,
                       isManuallyAdded |-> TRUE]
       IN (IF /\ projectConfig.manuallyAdded
              /\ projectConfig.originalPath # <<>>
              /\ projectConfig.originalPath \in realPaths
           THEN <<project>> ELSE <<>>)
            \o getManuallyAddedProjects(Tail(cfg))
discoverProjects ==
  LET claude == discoverClaudeProjects(
                  SelectSeq(ProjectAliases, LAMBDA name : projectDirs[name].exists),
                  <<>>, projectDirectoryCache)
  IN /\ projects' = claude.projects \o getManuallyAddedProjects(config)
     /\ projectDirectoryCache' = claude.cache
     /\ UNCHANGED <<config, projectDirs, realPaths, configResult, gatewayVars, envStoreVars,
                    watcherVars, jsonlFiles, content, mtimes, listing, page, del,
                    extractedPath, cliVars>>

\* the agent writes a line to a log of an alias directory, creating both
AgentLogs(name, file, line) ==
  /\ Len(projectDirs[name].text[file]) < MaxProjectLines
  /\ projectDirs' = [projectDirs EXCEPT ![name] =
                       [exists |-> TRUE, files |-> @.files \cup {file},
                        text |-> [@.text EXCEPT ![file] = Append(@, line)]]]
  /\ Asked
  /\ configResult' = NoResult
  /\ UNCHANGED <<config, realPaths, gatewayVars, envStoreVars, watcherVars, sessionVars, cliVars>>
\* a project path is created on disk, or removed
MakePath(path) ==
  /\ path \notin realPaths
  /\ realPaths' = realPaths \cup {path}
  /\ Asked
  /\ configResult' = NoResult
  /\ UNCHANGED <<config, projectDirs, gatewayVars, envStoreVars, watcherVars, sessionVars, cliVars>>
RemovePath(path) ==
  /\ path \in realPaths
  /\ realPaths' = realPaths \ {path}
  /\ Asked
  /\ configResult' = NoResult
  /\ UNCHANGED <<config, projectDirs, gatewayVars, envStoreVars, watcherVars, sessionVars, cliVars>>

ProjectInit == GatewayInit /\ EnvIdle /\ WatcherIdle /\ SessionIdle /\ ProjectsIdle /\ CliIdle
ProjectNext ==
  \/ \E path \in AddPaths : addProjectManually(path, <<>>)
  \/ \E name \in AliasSet, newDisplayName \in DisplayNames : renameProject(name, newDisplayName)
  \/ \E name \in AliasSet : deleteProject(name)
  \/ discoverProjects
  \/ \E name \in AliasSet, file \in Files, line \in ProjectLogLines : AgentLogs(name, file, line)
  \/ \E path \in {PathP, PathQ} : MakePath(path)
  \/ \E path \in {PathP, PathQ} : RemovePath(path)
ProjectSpec == ProjectInit /\ [][ProjectNext]_vars

\* ------------------------------------------------------ claudeCliService.ts: temp images
MaxClock == 1
MaxImages == 2
\* image.data in the parts the pattern tells apart
Png == <<"data:", <<"image", "/", "png">>, ";base64,", "AAAA">>
NoSubtype == <<"data:", <<"image">>, ";base64,", "AAAA">>
NotDataUri == <<"AAAA">>
Images == {Png, NoSubtype, NotDataUri}
ImageLists == UNION {[1..n -> Images] : n \in 0..MaxImages}
\* image.data.match(/^data:([^;]+);base64,(.+)$/)
Matches(data) ==
  /\ Len(data) = 4
  /\ data[1] = "data:" /\ data[2] # <<>>
  /\ data[3] = ";base64," /\ data[4] # ""
\* mimeType?.split('/')[1] || 'png'
extensionOf(mimeType) ==
  LET parts == Split(mimeType)
  IN IF Len(parts) >= 2 /\ parts[2] # <<>> THEN parts[2] ELSE <<"png">>
RECURSIVE writeImages(_, _, _)
writeImages(images, index, tempDir) ==
  IF images = <<>> THEN <<>>
  ELSE (IF Matches(Head(images))
        THEN <<<<tempDir, index, extensionOf(Head(images)[2])>>>>
        ELSE <<>>)
         \o writeImages(Tail(images), index + 1, tempDir)
processImages(images) ==
  IF images = <<>> THEN [tempImagePaths |-> <<>>, tempDir |-> Null]
  ELSE [tempImagePaths |-> writeImages(images, 0, clock), tempDir |-> clock]
InDir(tempDir) == {file \in tempFiles : file[1] = tempDir}
Range(seq) == {seq[i] : i \in DOMAIN seq}
cleanupTempFiles(tempImagePaths, tempDir) ==
  /\ tempFiles' = IF tempImagePaths # <<>> /\ tempDir # Null
                  THEN (tempFiles \ Range(tempImagePaths)) \ InDir(tempDir)
                  ELSE tempFiles \ Range(tempImagePaths)
  /\ tempDirs' = IF tempImagePaths # <<>> /\ tempDir # Null
                 THEN tempDirs \ {tempDir} ELSE tempDirs

besidesImages ==
  <<relativePath, resolvedPath, pipe, stdoutSent, spawnOptions, claudeArgs, inbound, gatewayVars,
    envStoreVars, watcherVars, sessionVars,
    projectVars>>
\* spawnClaude up to the spawn
SpawnWithImages(r, images) ==
  LET saved == processImages(images)
  IN /\ imageRuns[r].pc = "idle"
     /\ imageRuns' = [imageRuns EXCEPT ![r] =
                        [pc |-> "running", images |-> images,
                         tempImagePaths |-> saved.tempImagePaths, tempDir |-> saved.tempDir]]
     /\ tempDirs' = IF saved.tempDir # Null THEN tempDirs \cup {saved.tempDir} ELSE tempDirs
     /\ tempFiles' = tempFiles \cup Range(saved.tempImagePaths)
     /\ UNCHANGED <<clock, besidesImages>>
\* the child's close handler
ImagesOnClose(r) ==
  /\ imageRuns[r].pc = "running"
  /\ cleanupTempFiles(imageRuns[r].tempImagePaths, imageRuns[r].tempDir)
  /\ imageRuns' = [imageRuns EXCEPT ![r].pc = "closed"]
  /\ UNCHANGED <<clock, besidesImages>>
\* the child's error handler
ImagesOnError(r) ==
  /\ imageRuns[r].pc = "running"
  /\ cleanupTempFiles(imageRuns[r].tempImagePaths, imageRuns[r].tempDir)
  /\ imageRuns' = [imageRuns EXCEPT ![r].pc = "failed"]
  /\ UNCHANGED <<clock, besidesImages>>
Tick ==
  /\ clock < MaxClock
  /\ clock' = clock + 1
  /\ UNCHANGED <<tempDirs, tempFiles, imageRuns, besidesImages>>
ImageInit == Init
ImageNext ==
  \/ \E r \in Runs, images \in ImageLists : SpawnWithImages(r, images)
  \/ \E r \in Runs : ImagesOnClose(r)
  \/ \E r \in Runs : ImagesOnError(r)
  \/ Tick
ImageSpec == ImageInit /\ [][ImageNext]_vars

\* ------------------------------------------------------ claudeCliService.ts: project file paths
MaxPath == 3
\* a letter, the separator, the dot, the characters the check names, and NUL
PathChars == {"a", "/", ".", ":", "<", "NUL"}
Letters == {"a"}
Unsafe == {"<", ">", ":", "\"", "|", "?", "*"}
RelativePaths == UNION {[1..n -> PathChars] : n \in 0..MaxPath}
\* path.isAbsolute of posix
isAbsolute(path) == path # <<>> /\ path[1] = "/"
\* String.prototype.includes and startsWith with '..'
IncludesDotDot(str) == \E i \in 1..(Len(str) - 1) : str[i] = "." /\ str[i + 1] = "."
StartsWithDotDot(str) == Len(str) >= 2 /\ str[1] = "." /\ str[2] = "."
validateRelativePath(path) ==
  /\ ~IncludesDotDot(path)
  /\ ~isAbsolute(path)
  /\ ~(Len(path) >= 2 /\ path[1] \in Letters /\ path[2] = ":")
  /\ \A i \in DOMAIN path : path[i] \notin Unsafe
\* path.resolve of an absolute path, as the list of its segments
RECURSIVE resolveSegments(_, _)
resolveSegments(segments, resolved) ==
  IF segments = <<>> THEN resolved
  ELSE LET segment == Head(segments)
       IN resolveSegments(Tail(segments),
            IF segment = <<>> \/ segment = <<".">> THEN resolved
            ELSE IF segment = <<".", ".">>
            THEN (IF resolved = <<>> THEN resolved ELSE SubSeq(resolved, 1, Len(resolved) - 1))
            ELSE Append(resolved, segment))
resolve(path) == resolveSegments(Split(path), <<>>)
\* path.relative between two resolved paths, as the list of its segments
RECURSIVE relative(_, _)
relative(from, to) ==
  IF from # <<>> /\ to # <<>> /\ Head(from) = Head(to) THEN relative(Tail(from), Tail(to))
  ELSE [i \in 1..Len(from) |-> <<".", ".">>] \o to
resolveProjectFilePath(projectDir, path) ==
  LET finalPath == resolve(projectDir \o <<"/">> \o path)
      relativeFinal == relative(resolve(projectDir), finalPath)
  IN IF isAbsolute(path) \/ ~validateRelativePath(path)
     THEN [status |-> "rejected", path |-> <<>>]
     ELSE IF relativeFinal # <<>> /\ StartsWithDotDot(Head(relativeFinal))
     THEN [status |-> "rejected", path |-> <<>>]
     ELSE [status |-> "accepted", path |-> finalPath]

besidesPaths ==
  <<clock, tempDirs, tempFiles, imageRuns, pipe, stdoutSent, spawnOptions, claudeArgs,
    inbound, gatewayVars, envStoreVars, watcherVars,
    sessionVars, projectVars>>
\* a project file operation is given a path, and resolves it
AskPath(path) ==
  /\ relativePath' = path
  /\ resolvedPath' = Unresolved
  /\ UNCHANGED besidesPaths
ResolvePath ==
  /\ resolvedPath = Unresolved
  /\ resolvedPath' = resolveProjectFilePath(PathP, relativePath)
  /\ UNCHANGED <<relativePath, besidesPaths>>
PathInit == Init
PathNext == (\E path \in RelativePaths : AskPath(path)) \/ ResolvePath
PathSpec == PathInit /\ [][PathNext]_vars

\* ------------------------------------------------------ claudeCliService.ts: stdout chunks
MaxBytes == 4
\* the characters of stdout: a brace pair is an object, a run of digits a number
StdoutChars == {"{", "}", "1", "\n"}
Streams == UNION {[1..n -> StdoutChars] : n \in 1..MaxBytes}
\* rawOutput.split('\n')
RECURSIVE SplitLines(_)
SplitLines(str) ==
  IF \A i \in DOMAIN str : str[i] # "\n" THEN <<str>>
  ELSE LET i == CHOOSE j \in DOMAIN str :
                  str[j] = "\n" /\ \A l \in 1..(j - 1) : str[l] # "\n"
       IN <<SubSeq(str, 1, i - 1)>> \o SplitLines(SubSeq(str, i + 1, Len(str)))
\* JSON.parse(line) does not throw
JsonParses(line) ==
  \/ line = <<"{", "}">>
  \/ line # <<>> /\ \A i \in DOMAIN line : line[i] = "1"
\* the frame the loop body sends for a line
LineFrame(line) ==
  IF JsonParses(line) THEN [type |-> "claude-response", data |-> line]
  ELSE [type |-> "claude-output", data |-> line]
\* the stdout handler on one chunk: a frame for each of its non-blank lines
ChunkFrames(rawOutput) ==
  LET lines == SelectSeq(SplitLines(rawOutput), LAMBDA line : Trim(line) # <<>>)
  IN [k \in DOMAIN lines |-> LineFrame(lines[k])]

besidesStdout ==
  <<clock, tempDirs, tempFiles, imageRuns, relativePath, resolvedPath, spawnOptions,
    claudeArgs, inbound, gatewayVars,
    envStoreVars, watcherVars, sessionVars, projectVars>>
\* the child writes its output
ChildWrites(bytes) ==
  /\ ~pipe.written
  /\ pipe' = [bytes |-> bytes, read |-> 0, written |-> TRUE]
  /\ UNCHANGED <<stdoutSent, besidesStdout>>
\* 'data' with the next n bytes of the pipe
StdoutChunk(n) ==
  /\ pipe.written
  /\ n >= 1 /\ pipe.read + n <= Len(pipe.bytes)
  /\ stdoutSent' =
       stdoutSent \o ChunkFrames(SubSeq(pipe.bytes, pipe.read + 1, pipe.read + n))
  /\ pipe' = [pipe EXCEPT !.read = @ + n]
  /\ UNCHANGED besidesStdout
ChunkInit == Init
ChunkNext == (\E bytes \in Streams : ChildWrites(bytes)) \/ (\E n \in 1..MaxBytes : StdoutChunk(n))
ChunkSpec == ChunkInit /\ [][ChunkNext]_vars

\* ------------------------------------------------------ claudeCliService.ts: buildClaudeArgs
\* an argument is a string, written as its characters or as one word
Undefined == <<>>
Commands == {Undefined, <<" ">>, <<"h", "i">>, <<"--resume">>}
ArgSessionIds == {Undefined, <<"s1">>}
PermissionModes == {Undefined, <<"default">>, <<"plan">>, <<"acceptEdits">>}
AllowedLists == {<<>>, <<<<"Bash">>>>, <<<<"Read">>, <<"Bash">>>>, <<<<"Task">>, <<"Task">>>>}
DisallowedLists == {<<>>, <<<<"Write">>, <<"Edit">>>>}
McpConfigPaths == {Undefined, <<"~/.claude.json">>}
ImagePathLists == {<<>>, <<<<"image_0.png">>, <<"image_1.png">>>>}
planModeTools == <<<<"Read">>, <<"Task">>, <<"exit_plan_mode">>, <<"TodoRead">>, <<"TodoWrite">>>>
Ordinals == <<"1. ", "2. ">>
\* `\n\n[Images provided at the following paths:]\n` and the numbered paths
RECURSIVE numberedPaths(_, _)
numberedPaths(paths, i) ==
  IF paths = <<>> THEN <<>>
  ELSE (IF i > 1 THEN <<"\n">> ELSE <<>>) \o <<Ordinals[i]>> \o Head(paths)
         \o numberedPaths(Tail(paths), i + 1)
imageNote(tempImagePaths) ==
  <<"\n\n[Images provided at the following paths:]\n">> \o numberedPaths(tempImagePaths, 1)
\* a flag and its value, once for each value of the list
RECURSIVE flagEach(_, _)
flagEach(flag, values) ==
  IF values = <<>> THEN <<>> ELSE <<flag, Head(values)>> \o flagEach(flag, Tail(values))
\* the plan mode tools that are not yet in the list, appended in their order
RECURSIVE withPlanModeTools(_, _)
withPlanModeTools(allowedTools, tools) ==
  IF tools = <<>> THEN allowedTools
  ELSE withPlanModeTools(
         IF Head(tools) \in Range(allowedTools) THEN allowedTools
         ELSE Append(allowedTools, Head(tools)),
         Tail(tools))
toolArgs_skipInPlan(settings, permissionMode) ==
  IF settings.skipPermissions
  THEN <<<<"--dangerously-skip-permissions">>>>
  ELSE flagEach(<<"--allowedTools">>,
                IF permissionMode = <<"plan">>
                THEN withPlanModeTools(settings.allowedTools, planModeTools)
                ELSE settings.allowedTools)
         \o flagEach(<<"--disallowedTools">>, settings.disallowedTools)
toolArgs(settings, permissionMode) ==
  IF settings.skipPermissions /\ permissionMode # <<"plan">>
  THEN <<<<"--dangerously-skip-permissions">>>>
  ELSE flagEach(<<"--allowedTools">>,
                IF permissionMode = <<"plan">>
                THEN withPlanModeTools(settings.allowedTools, planModeTools)
                ELSE settings.allowedTools)
         \o flagEach(<<"--disallowedTools">>, settings.disallowedTools)
sessionArgs_modelAlways(options) ==
  (IF options.resume /\ options.sessionId # Undefined
   THEN <<<<"--resume">>, options.sessionId>> ELSE <<>>)
    \o <<<<"--output-format">>, <<"stream-json">>, <<"--verbose">>>>
    \o (IF options.mcpConfigPath # Undefined
        THEN <<<<"--mcp-config">>, options.mcpConfigPath>> ELSE <<>>)
    \o <<<<"--model">>, <<"sonnet">>>>
sessionArgs(options) ==
  (IF options.resume /\ options.sessionId # Undefined
   THEN <<<<"--resume">>, options.sessionId>> ELSE <<>>)
    \o <<<<"--output-format">>, <<"stream-json">>, <<"--verbose">>>>
    \o (IF options.mcpConfigPath # Undefined
        THEN <<<<"--mcp-config">>, options.mcpConfigPath>> ELSE <<>>)
    \o (IF ~options.resume THEN <<<<"--model">>, <<"sonnet">>>> ELSE <<>>)
buildClaudeArgs(command, options, tempImagePaths) ==
  (IF command # Undefined /\ Trim(command) # <<>>
   THEN <<<<"--print">>,
          IF tempImagePaths # <<>> THEN command \o imageNote(tempImagePaths) ELSE command>>
   ELSE <<>>)
    \o sessionArgs(options)
    \o (IF options.permissionMode # Undefined /\ options.permissionMode # <<"default">>
        THEN <<<<"--permission-mode">>, options.permissionMode>> ELSE <<>>)
    \o toolArgs(options.toolsSettings, options.permissionMode)

besidesArgs ==
  <<clock, tempDirs, tempFiles, imageRuns, relativePath, resolvedPath, pipe, stdoutSent,
    inbound, gatewayVars, envStoreVars, watcherVars, sessionVars, projectVars>>
\* spawnClaude builds the arguments of an invocation
BuildArgs(command, options, tempImagePaths) ==
  /\ ~spawnOptions.built
  /\ spawnOptions' = [built |-> TRUE, command |-> command, options |-> options,
                      tempImagePaths |-> tempImagePaths]
  /\ claudeArgs' = buildClaudeArgs(command, options, tempImagePaths)
  /\ UNCHANGED besidesArgs
SpawnOptions ==
  [sessionId : ArgSessionIds, resume : BOOLEAN, mcpConfigPath : McpConfigPaths,
   permissionMode : PermissionModes,
   toolsSettings : [allowedTools : AllowedLists, disallowedTools : DisallowedLists,
                    skipPermissions : BOOLEAN]]
ArgsInit == Init
ArgsNext ==
  \E command \in Commands, options \in SpawnOptions, tempImagePaths \in ImagePathLists :
    BuildArgs(command, options, tempImagePaths)
ArgsSpec == ArgsInit /\ [][ArgsNext]_vars

\* ------------------------------------------------------ websocket.ts: other inbound frames
\* a text that is not JSON, the JSON text null, an object of an unknown type,
\* an object without a type
OtherMessages == {"not json", "null", "unknown type", "no type"}
\* JSON.parse(message) throws, or reading data.type does
Throws(message) == message \in {"not json", "null"}
\* message(ws, message) for a frame that is neither claude-command nor
\* abort-session: the catch sends an error frame, no branch sends anything
messageAnswer(message) == IF Throws(message) THEN <<"error">> ELSE <<>>
OtherFrame(s, message) ==
  /\ server # "exited"
  /\ sock[s] = "open"
  /\ inbound' = [from |-> s, message |-> message, answer |-> messageAnswer(message)]
  /\ UNCHANGED <<clock, tempDirs, tempFiles, imageRuns, relativePath, resolvedPath, pipe,
                 stdoutSent, spawnOptions, claudeArgs, gatewayVars, envStoreVars,
                 watcherVars, sessionVars, projectVars>>
MessageNext ==
  \/ Clients
  \/ Children
  \/ \E s \in Sockets, message \in OtherMessages : OtherFrame(s, message)
MessageSpec == Init /\ [][MessageNext]_vars

\* ------------------------------------------------------ claims about the project config
AbsoluteOf(projectPath) ==
  IF projectPath[1] = "/" THEN projectPath ELSE processCwd \o <<"/">> \o projectPath
\* C23: addProjectManually fails and leaves the config unchanged when the path
\* does not exist or the alias of the path already exists, as an alias
\* directory or as a config entry; otherwise it appends exactly one entry for
\* the alias, marked manuallyAdded with originalPath the absolute path, and
\* changes no other entry.
AddManualContract ==
  [][\A projectPath \in AddPaths :
       addProjectManually(projectPath, <<>>) =>
         LET absolutePath == AbsoluteOf(projectPath)
             name == aliasOf(absolutePath)
         IN IF \/ absolutePath \notin realPaths
               \/ projectDirs[name].exists
               \/ ConfigHas(config, name)
            THEN configResult' = Failed("add") /\ config' = config
            ELSE /\ configResult' = Ok("add")
                 /\ ConfigHas(config', name)
                 /\ ConfigGet(config', name).manuallyAdded
                 /\ ConfigGet(config', name).originalPath = absolutePath
                 /\ ConfigDelete(config', name) = config]_vars

Discovered == projects # NoProjects
Override(name) == IF ConfigHas(config, name) THEN ConfigGet(config, name).displayName ELSE <<>>
\* C24: once renameProject has stored a non-empty name for an alias, every
\* project that discoverProjects reports under that alias, agent-managed or
\* manually added, has that name as its displayName.
RenameReported ==
  Discovered =>
    \A name \in AliasSet : \A i \in DOMAIN projects :
      Override(name) # <<>> /\ projects[i].name = name
        => projects[i].displayName = Override(name)
\* the fields of the entry of an alias, those of {} when it has none
EntryOf(cfg, name) == IF ConfigHas(cfg, name) THEN ConfigGet(cfg, name) ELSE NoEntry
\* C25: renameProject with an empty name clears only the displayName of the
\* entry of that alias: its manuallyAdded flag, its originalPath and every
\* other entry are as before.
ClearKeepsEntry ==
  [][\A name \in AliasSet :
       renameProject(name, <<>>) =>
         \A other \in AliasSet :
           EntryOf(config', other) =
             IF other = name THEN [EntryOf(config, name) EXCEPT !.displayName = <<>>]
             ELSE EntryOf(config, other)]_vars

TempImagesCleaned ==
  [][\A r \in Runs :
       (ImagesOnClose(r) \/ ImagesOnError(r)) /\ imageRuns[r].images # <<>> =>
          /\ imageRuns[r].tempDir \notin tempDirs'
          /\ InDir(imageRuns[r].tempDir)' = {}
          /\ Range(imageRuns[r].tempImagePaths) \cap tempFiles' = {}]_vars

\* ------------------------------------------------------ claims about the project file paths
IsPrefix(prefix, seq) == Len(prefix) <= Len(seq) /\ SubSeq(seq, 1, Len(prefix)) = prefix
HasChar(str, chars) == \E i \in DOMAIN str : str[i] \in chars
\* C28: a path that resolveProjectFilePath accepts resolves inside the project
\* directory, and an absolute path, a path containing '..', a path with a
\* drive prefix and a path with a shell-unsafe or NUL character are rejected.
PathSandbox ==
  resolvedPath # Unresolved =>
    /\ resolvedPath.status = "accepted" => IsPrefix(resolve(PathP), resolvedPath.path)
    /\ \/ isAbsolute(relativePath)
       \/ IncludesDotDot(relativePath)
       \/ (Len(relativePath) >= 2 /\ relativePath[1] \in Letters /\ relativePath[2] = ":")
       \/ HasChar(relativePath, Unsafe \cup {"NUL"})
       => resolvedPath.status = "rejected"
\* ------------------------------------------------------ claims about the live-invocation map
\* the child of invocation i is the value of some key
Held(i) == \E e \in activeClaudeProcesses : e[2] = i
\* C29: every child that has been spawned, has not closed and has not been
\* aborted is the value of some key of activeClaudeProcesses, also when two
\* invocations use the same sessionId or are given the same generated key.
LiveChildIsHeld ==
  \A i \in Invocations : Live(i) /\ ~inv[i].sigterm => Held(i)
\* C30: once an abort has removed the entry of an invocation, the child of
\* that invocation is not put into activeClaudeProcesses again.
AbortedStaysOut ==
  [][\A i \in Invocations : inv[i].sigterm /\ ~Held(i) => ~Held(i)']_vars

\* the child of invocation i has closed, or could not be started
Ended(i) == inv[i].pc \in {"closed", "failed"}
\* C35: no entry of activeClaudeProcesses refers to a child that has closed,
\* so the map is empty once every child has closed, whatever the interleaving
\* of run frames, captures, aborts, spawn errors and closes was.
NoEntryOutlivesChild ==
  /\ \A e \in activeClaudeProcesses : ~Ended(e[2])
  /\ (\A i \in Invocations : Ended(i)) => activeClaudeProcesses = {}
\* two invocations that were given the same generated key, one of them re-keyed
\* by a capture, have both closed
CollidedAndClosedReached ==
  /\ Len(inv) = 2
  /\ \A i \in Invocations : inv[i].pc = "closed" /\ inv[i].processKey = Millis[1]
  /\ \E i \in Invocations : inv[i].capturedSessionId # NoSession
  /\ activeClaudeProcesses = {}

\* ------------------------------------------------------ deleteSession beside the agent
\* the agent appends to the logs at any time, also between the readFile and
\* the writeFile of a running deleteSession
RaceLines == {Entry("x", "user", 1, NoCwd), Entry("y", "user", 1, NoCwd), Malformed}
RaceNext ==
  \/ \E file \in Files, line \in RaceLines : AppendLine(file, line, MaxLines)
  \/ \E sessionId \in LogSessionIds : DeleteStart(sessionId)
  \/ DeleteRead
  \/ DeleteReadFails
  \/ DeleteWrite
  \/ DeleteEnd
RaceSpec == SessionInit /\ [][RaceNext]_vars

\* the lines of a file that deleteSession is to keep: those of other sessions
\* and the malformed ones
Kept(lines) ==
  SelectSeq(lines, LAMBDA line :
    line.kind # "blank" /\ (~Parses(line) \/ line.sessionId # del.sessionId))
\* C33: the rewrite of a file by deleteSession keeps every line of another
\* session that is in the file when it is rewritten, so a line appended
\* between the read and the rewrite is not lost.
RewriteKeepsAppended ==
  [][DeleteWrite => \A file \in Files : Kept(content'[file]) = Kept(content[file])]_vars

\* ------------------------------------------------------ claims about the stdout frames
\* the claude-response and claude-output frames sent for invocation i
StdoutCount(sent, i) == Cardinality({k \in 1..Len(sent[i]) : sent[i][k] \in StdoutFrames})
\* C34: an invocation is sent claude-response and claude-output frames only
\* while its child runs and no abort of it has been accepted: none before the
\* spawn, none after the abort, none after claude-complete.
StreamsOnlyWhileStreaming ==
  [][\A i \in Invocations :
       inv[i].pc # "running" \/ inv[i].sigterm
         => StdoutCount(frames', i) = StdoutCount(frames, i)]_vars

\* ------------------------------------------------------ claims about the debounce
\* C32: at most one debounce timer is pending at any time, also when events
\* arrive while a broadcast is awaiting the project list.
OneTimerPending == Cardinality(timers) <= 1

\* ------------------------------------------------------ claims about the discovery
\* C39: discoverProjects never returns two projects with the same alias, also
\* when an alias directory and a manuallyAdded entry exist for one alias.
DiscoverNoDuplicates ==
  Discovered =>
    \A i, j \in DOMAIN projects : projects[i].name = projects[j].name => i = j

\* ------------------------------------------------------ claims about the stdout chunks
\* C31: the frames sent for a child's stdout depend only on its bytes: once a
\* stream of newline-terminated lines has been read, in whatever chunks, one
\* frame has been sent for each non-empty line, claude-response if the line
\* parses and claude-output with the line otherwise.
ChunkingIsInvisible ==
  /\ pipe.written /\ pipe.read = Len(pipe.bytes)
  /\ pipe.bytes[Len(pipe.bytes)] = "\n"
  => stdoutSent = ChunkFrames(pipe.bytes)

\* ------------------------------------------------------ claims about the arguments
Built == spawnOptions.built
\* the arguments after --print and its value, the prompt
Flags ==
  IF claudeArgs # <<>> /\ claudeArgs[1] = <<"--print">>
  THEN SubSeq(claudeArgs, 3, Len(claudeArgs)) ELSE claudeArgs
HasFlag(flag) == \E k \in DOMAIN Flags : Flags[k] = flag
HasPair(flag, value) ==
  \E k \in 1..(Len(Flags) - 1) : Flags[k] = flag /\ Flags[k + 1] = value
Resumes == spawnOptions.options.resume /\ spawnOptions.options.sessionId # Undefined
\* C36: the arguments contain --resume <sessionId> exactly when resume is set
\* and a sessionId is given, --model sonnet exactly when resume is not set,
\* never both, and --output-format stream-json --verbose follows the --print
\* and --resume arguments.
ResumeAndModelArgs ==
  Built =>
    /\ HasFlag(<<"--resume">>) <=> Resumes
    /\ Resumes => HasPair(<<"--resume">>, spawnOptions.options.sessionId)
    /\ HasFlag(<<"--model">>) <=> ~spawnOptions.options.resume
    /\ HasFlag(<<"--model">>) => HasPair(<<"--model">>, <<"sonnet">>)
    /\ ~(HasFlag(<<"--resume">>) /\ HasFlag(<<"--model">>))
    /\ LET first == IF Resumes THEN 3 ELSE 1
       IN SubSeq(Flags, first, first + 2)
            = <<<<"--output-format">>, <<"stream-json">>, <<"--verbose">>>>
\* a resumed invocation with a prompt and images has been given its arguments
ResumeArgsBuiltReached ==
  /\ Built /\ Resumes
  /\ claudeArgs[1] = <<"--print">> /\ spawnOptions.tempImagePaths # <<>>
  /\ HasPair(<<"--resume">>, <<"s1">>)

\* the values given to a flag, in order
RECURSIVE ValuesAfter(_, _)
ValuesAfter(seq, flag) ==
  IF Len(seq) < 2 THEN <<>>
  ELSE IF Head(seq) = flag
  THEN <<seq[2]>> \o ValuesAfter(SubSeq(seq, 3, Len(seq)), flag)
  ELSE ValuesAfter(Tail(seq), flag)
Occurrences(seq, x) == Cardinality({k \in DOMAIN seq : seq[k] = x})
Allowed == ValuesAfter(Flags, <<"--allowedTools">>)
Disallowed == ValuesAfter(Flags, <<"--disallowedTools">>)
Settings == spawnOptions.options.toolsSettings
PlanMode == spawnOptions.options.permissionMode = <<"plan">>
\* C37: the arguments contain --dangerously-skip-permissions exactly when
\* skipPermissions is set and the mode is not plan, and then no --allowedTools
\* and no --disallowedTools; otherwise one --allowedTools per allowed tool,
\* then one --disallowedTools per disallowed tool, and in plan mode each of
\* the five plan tools is allowed, once unless the list given names it.
ToolPolicyArgs ==
  Built =>
    /\ HasFlag(<<"--dangerously-skip-permissions">>) <=> Settings.skipPermissions /\ ~PlanMode
    /\ HasFlag(<<"--dangerously-skip-permissions">>)
         => ~HasFlag(<<"--allowedTools">>) /\ ~HasFlag(<<"--disallowedTools">>)
    /\ ~HasFlag(<<"--dangerously-skip-permissions">>) =>
         /\ Occurrences(Flags, <<"--allowedTools">>) = Len(Allowed)
         /\ Occurrences(Flags, <<"--disallowedTools">>) = Len(Disallowed)
         /\ \A j, k \in DOMAIN Flags :
              Flags[j] = <<"--allowedTools">> /\ Flags[k] = <<"--disallowedTools">> => j < k
         /\ Disallowed = Settings.disallowedTools
         /\ SubSeq(Allowed, 1, Len(Settings.allowedTools)) = Settings.allowedTools
         /\ ~PlanMode => Allowed = Settings.allowedTools
         /\ PlanMode =>
              /\ \A tool \in Range(planModeTools) :
                   Occurrences(Allowed, tool) =
                     IF tool \in Range(Settings.allowedTools)
                     THEN Occurrences(Settings.allowedTools, tool) ELSE 1
              /\ Range(Allowed) = Range(Settings.allowedTools) \cup Range(planModeTools)
\* plan mode with skipPermissions set and a list that names a plan tool
PlanWithSkipReached ==
  /\ Built /\ PlanMode /\ Settings.skipPermissions
  /\ <<"Task">> \in Range(Settings.allowedTools)
  /\ Len(Allowed) > Len(Settings.allowedTools)

\* ------------------------------------------------------ claims about the inbound frames
\* C38: an inbound frame that is not JSON or whose type is not a known tag is
\* answered with one error frame on its socket, spawns no child, changes no
\* entry of activeClaudeProcesses and leaves the socket open and registered.
BadFrameAnswered ==
  [][\A s \in Sockets, message \in OtherMessages :
       OtherFrame(s, message) =>
         /\ inbound'.from = s /\ inbound'.answer = <<"error">>
         /\ inv' = inv /\ activeClaudeProcesses' = activeClaudeProcesses
         /\ sock'[s] = "open" /\ (s \in connectedClients <=> s \in connectedClients')]_vars

====
